---- MODULE Spec2Model ----
(***************************************************************************)
(* Model of optimization.cc (giac): the commands extrema, implicitdiff,   *)
(* minimize and maximize, the critical point classifier                    *)
(* find_local_extrema and the evaluator global_extrema.                    *)
(*                                                                         *)
(* The symbolic kernel (solve, det, rank, eigenvalues, derive) is outside  *)
(* the program.  What it returns is an input of the model: the set of      *)
(* column subsets of the constraint Jacobian with a non-zero determinant,  *)
(* the solutions of a system, the signs of eigenvalues, minors and         *)
(* derivatives.  Variable indices are 0-based as in the source; sequences  *)
(* are 1-based, so position i of the source is element i+1.                *)
(***************************************************************************)
EXTENDS Integers, Sequences, FiniteSets, TLC

\* ---------------------------------------------------------------- bounds
MaxVars == 2        \* largest number of problem variables
MaxSol == 2         \* largest number of solutions one solver call returns
MaxCrit == 2        \* largest number of distinct critical points of a problem
MaxOrderOpt == 2    \* largest value given with the option order_size=<k>
MaxCand == 3        \* largest candidate list handed to global_extrema
MaxVal == 1         \* objective values range over -MaxVal..MaxVal
MaxFree == 2        \* largest number of independent variables of an ipdiff
MaxDerivOrder == 2  \* largest derivative order asked of an ipdiff
MaxTestSize == 3    \* largest number of minors or eigenvalues of one test
MaxTestOrder == 4   \* largest order_size of a univariate test
MaxHigherOrder == 3 \* largest order_size of a higher-order test
MaxHigherCand == 2  \* most candidates one call gives to the higher-order test
MaxIneq == 2        \* largest number of inequality constraints of solve_kkt
MaxKktSol == 1      \* most solutions one reduced system has
MaxKktCand == 2     \* most solutions all the reduced systems have together
MaxTermVars == 2    \* largest number of independent variables of the terms
MaxTermConstr == 2  \* largest number of constraints of the terms
MaxTermOrder == 2   \* largest order the expansions are raised to
MaxSources == 2     \* largest number of supply points
MaxDestinations == 2 \* largest number of demand points
MaxUnits == 3       \* largest supply or demand of one point

\* ------------------------------------------------------ program constants
DefaultOrderSize == 5

CPCLASS_UNDECIDED == "UNDECIDED"
CPCLASS_MIN == "MIN"
CPCLASS_MAX == "MAX"
CPCLASS_POSSIBLE_MIN == "POSSIBLE_MIN"
CPCLASS_POSSIBLE_MAX == "POSSIBLE_MAX"
CPCLASS_SADDLE == "SADDLE"

Classes == {CPCLASS_UNDECIDED, CPCLASS_MIN, CPCLASS_MAX,
            CPCLASS_POSSIBLE_MIN, CPCLASS_POSSIBLE_MAX, CPCLASS_SADDLE}

\* A map entry created by cpts[key] holds the default gen, the integer 0,
\* which is the value of the first enumerator, _CPCLASS_UNDECIDED.
is_zero_class(c) == c = CPCLASS_UNDECIDED

Coord == 0..1
Signs == -1..1

Points(n) == [1..n -> Coord]

RECURSIVE SumSeq(_)
SumSeq(s) == IF s = <<>> THEN 0 ELSE Head(s) + SumSeq(Tail(s))

\* the points critical points are drawn from: the origin and the unit points
PointPool(n) == {p \in Points(n) : SumSeq(p) <= 1}

\* ------------------------------------------------------------ state
VARIABLES
    cmd,            \* the command being evaluated
    nv,             \* number of problem variables (vars.size())
    m,              \* number of equality constraints (constr.size())
    nonsing,        \* column subsets of the Jacobian whose block has det # 0
    optarg,         \* the trailing option of the call
    initialN,       \* number of variables given with an initial value
    pc,             \* position in the command
    order_size,
    arrs,           \* the variable arrangements to iterate through
    ai,             \* index of the arrangement being processed
    cv,             \* solutions of the current find_local_extrema call
    ci,             \* index of the candidate being classified
    taylor_terms,   \* per computed Taylor term: is it identically zero
    cpts,           \* classification map: point -> class
    result,         \* the value the command returns
    maxord,         \* highest derivative order requested by the latest call of
                    \* find_local_extrema or by implicitdiff
    solved,         \* the solver was asked for candidates
    tested,         \* column blocks whose determinant was tested, det # 0
    engines,        \* orderings a constrained ipdiff was constructed for
    kept,           \* points the latest call of find_local_extrema found
                    \* while they held a class # UNDECIDED
    definite,       \* points some arrangement assigned MIN, MAX or SADDLE
    gF,             \* global_extrema: objective value at each point
    gcv,            \* global_extrema: the candidate list
    glocation,      \* minimize/maximize: location option given
    mn,             \* global_extrema: the minimum, by reference
    mx,             \* global_extrema: the maximum, by reference
    min_locations,  \* global_extrema: the list it returns
    ipd,            \* an ipdiff object: its order and the keys of its caches
    eret,           \* what the latest call on the ipdiff object returned
    efailed,        \* a kernel call failed in some call on the object
    tin,            \* a second-order or univariate test: what it is run on
    loop,           \* the locals of the loop of that test
    hig,            \* the higher-order test over the candidates of one call
    kkt,            \* solve_kkt: its inputs and locals
    dt,             \* the term algebra of an ipdiff: cterms and the h cache
    tp              \* north_west_corner: supply, demand and the matrix

exvars == <<cmd, nv, m, nonsing, optarg, initialN, pc, order_size, arrs,
            ai, cv, ci, taylor_terms, cpts, result, maxord, solved, tested,
            engines, kept, definite>>
gvars == <<gF, gcv, glocation, mn, mx, min_locations>>
evars == <<ipd, eret, efailed>>
tvars == <<tin, loop>>
hvars == <<hig>>
kvars == <<kkt>>
dvars == <<dt>>
pvars == <<tp>>
auxvars == <<evars, tvars, hvars, kvars, dvars, pvars>>
vars == <<exvars, gvars, auxvars>>

inputs == <<cmd, nv, m, nonsing, optarg, initialN>>

\* ------------------------------------------------------------ helpers
Max2(a, b) == IF a >= b THEN a ELSE b

RECURSIVE Pow2(_)
Pow2(n) == IF n = 0 THEN 1 ELSE 2 * Pow2(n - 1)

\* bitset<32> b(k): the positions of the bits set in k
BitsOf(k, n) == {i \in 0..(n - 1) : (k \div Pow2(i)) % 2 = 1}

\* arr.erase(arr.begin()+i)
Erase(s, i) == [j \in 1..(Len(s) - 1) |-> IF j < i + 1 THEN s[j] ELSE s[j + 1]]

Identity(n) == [j \in 1..n |-> j - 1]

\* the columns an ordering treats as dependent: its last mm entries
Block(arr, mm) == {arr[j] : j \in (Len(arr) - mm + 1)..Len(arr)}

ColSubsets(n, mm) == {S \in SUBSET (0..(n - 1)) : Cardinality(S) = mm}

\* is_zero(_det(S)) for the block over the columns S
det_is_zero(S, ns) == S \notin ns

\* _rank(J) < m: no m columns of J are independent
rank_deficient(ns) == ns = {}

\* ------------------------------------------------- vars_arrangements
RECURSIVE ArrLoopPushOnly(_, _, _)
ArrLoopPushOnly(arr, S, i) ==
    IF i < 0 THEN arr
    ELSE IF i \in S THEN ArrLoopPushOnly(Append(arr, i), S, i - 1)
    ELSE ArrLoopPushOnly(arr, S, i - 1)

\* the loop over i = n-1 .. 0 that moves the columns of the mask S to the
\* end of arr
RECURSIVE ArrLoop(_, _, _)
ArrLoop(arr, S, i) ==
    IF i < 0 THEN arr
    ELSE IF i \in S THEN ArrLoop(Append(Erase(arr, i), i), S, i - 1)
    ELSE ArrLoop(arr, S, i - 1)

\* the masks k = 1..2^n-1 with m bits set, in increasing order
RECURSIVE ArrSets(_, _, _)
ArrSets(k, n, mm) ==
    IF k >= Pow2(n) THEN <<>>
    ELSE IF Cardinality(BitsOf(k, n)) = mm
         THEN <<BitsOf(k, n)>> \o ArrSets(k + 1, n, mm)
         ELSE ArrSets(k + 1, n, mm)

\* the arrangement is kept whatever the determinant is
keep_arrangement_always(arr, mm, ns) == TRUE

\* if (!is_zero(_det(S,contextptr))) arrs.push_back(arr);
keep_arrangement(arr, mm, ns) == ~det_is_zero(Block(arr, mm), ns)

RECURSIVE ArrFilter(_, _, _, _)
ArrFilter(sets, n, mm, ns) ==
    IF sets = <<>> THEN <<>>
    ELSE LET arr == ArrLoop(Identity(n), Head(sets), n - 1)
         IN (IF keep_arrangement(arr, mm, ns) THEN <<arr>> ELSE <<>>)
            \o ArrFilter(Tail(sets), n, mm, ns)

vars_arrangements(n, mm, ns) == ArrFilter(ArrSets(1, n, mm), n, mm, ns)

\* the blocks vars_arrangements found to have a non-zero determinant
TestedBlocks(n, mm, ns) ==
    LET sets == ArrSets(1, n, mm)
    IN {sets[i] : i \in {j \in 1..Len(sets) : ~det_is_zero(sets[j], ns)}}

\* ck_jacobian: the rank test, then the determinant of the last m columns
ck_jacobian(n, mm, ns) ==
    IF rank_deficient(ns) THEN FALSE
    ELSE ~det_is_zero(Block(Identity(n), mm), ns)

\* ------------------------------------------------ find_local_extrema
\* the solution stored as the solver returned it, in the arranged order
UnarrangeIdentity(sol, arr) == sol

\* cpt_arr[arr[j]]=it->at(j): a solution in arranged order is stored in
\* the original variable order
Unarrange(sol, arr) ==
    [p \in 1..Len(arr) |-> sol[CHOOSE j \in 1..Len(arr) : arr[j] + 1 = p]]

\* what the solver returns for the point pt under the arrangement arr
Arranged(pt, arr) == [j \in 1..Len(arr) |-> pt[arr[j] + 1]]

\* (-1)^k
MinusOnePow(k) == IF k % 2 = 0 THEN 1 ELSE -1

\* the bordered Hessian test: s[k] is the sign of the minor of size 2m+k
RECURSIVE BorderedLoop(_, _, _, _, _)
BorderedLoop(s, k, n, mm, cls) ==
    IF k > n THEN cls
    ELSE IF s[k] = 0 THEN CPCLASS_UNDECIDED
    ELSE IF cls = CPCLASS_SADDLE THEN BorderedLoop(s, k + 1, n, mm, cls)
    ELSE IF cls # CPCLASS_MAX /\ s[k] * MinusOnePow(mm) > 0
         THEN BorderedLoop(s, k + 1, n, mm, CPCLASS_MIN)
    ELSE IF cls # CPCLASS_MIN /\ s[k] * MinusOnePow(mm + k) > 0
         THEN BorderedLoop(s, k + 1, n, mm, CPCLASS_MAX)
    ELSE BorderedLoop(s, k + 1, n, mm, CPCLASS_SADDLE)

BorderedTest(s, n, mm) == BorderedLoop(s, 1, n, mm, CPCLASS_UNDECIDED)

\* the univariate test: d[k] is the sign of the k-th derivative at x0;
\* the result is <<class, highest order derived>>
RECURSIVE UnivariateLoop(_, _, _)
UnivariateLoop(d, k, os) ==
    IF k > os THEN <<CPCLASS_UNDECIDED, k - 1>>
    ELSE IF d[k] = 0 THEN UnivariateLoop(d, k + 1, os)
    ELSE IF k % 2 # 0 THEN <<CPCLASS_SADDLE, k>>
    ELSE <<(IF d[k] > 0 THEN CPCLASS_MIN ELSE CPCLASS_MAX), k>>

UnivariateTest(d, os) == UnivariateLoop(d, 2, os)

\* the second partial derivative test on the eigenvalues of the Hessian
RECURSIVE EigenLoop(_, _, _, _)
EigenLoop(eig, i, e, cls) ==
    IF i > Len(eig) THEN cls
    ELSE IF eig[i] = 0 THEN CPCLASS_UNDECIDED
    ELSE IF e = 0
         THEN EigenLoop(eig, i + 1, eig[i],
                        IF eig[i] >= 0 THEN CPCLASS_MIN ELSE CPCLASS_MAX)
    ELSE IF (0 - e) * eig[i] > 0
         THEN EigenLoop(eig, i + 1, e, CPCLASS_SADDLE)
    ELSE EigenLoop(eig, i + 1, e, cls)

EigenTest(eig) == EigenLoop(eig, 1, 0, CPCLASS_UNDECIDED)

\* the verdict of one degree of the higher-order test from the extrema of
\* the homogeneous polynomial on the unit sphere; "next" stands for continue
TaylorVerdict(k, pmin, pmax) ==
    IF pmin = 0 /\ pmax = 0 THEN "next"
    ELSE IF k % 2 # 0 \/ ((0 - pmin) > 0 /\ pmax > 0) THEN CPCLASS_SADDLE
    ELSE IF pmin > 0 THEN CPCLASS_MIN
    ELSE IF (0 - pmax) > 0 THEN CPCLASS_MAX
    ELSE IF pmin = 0 THEN CPCLASS_POSSIBLE_MIN
    ELSE IF pmax = 0 THEN CPCLASS_POSSIBLE_MAX
    ELSE CPCLASS_UNDECIDED

\* <<pmin, pmax>>: what global_extrema reports for a polynomial on the sphere
SphereExtrema == {pp \in Signs \X Signs : pp[1] <= pp[2]}

\* The higher-order test from degree k on, with the Taylor terms tt already
\* computed in this call.  An element of tt is TRUE iff that term is the
\* zero polynomial.  The kernel's answers (is a new term zero, is the term
\* zero at the candidate, what are pmin and pmax, did global_extrema find
\* candidates) are inputs, so the result is the set of all <<class, tt>>
\* the loop can end with.
RECURSIVE HigherTest(_, _, _)
HigherTest(k, tt, os) ==
    IF k > os THEN {<<CPCLASS_UNDECIDED, tt>>}
    ELSE
      LET pushed == IF Len(tt) < k - 1
                    THEN {Append(tt, z) : z \in BOOLEAN}
                    ELSE {tt}
          After(t2) ==
            IF t2[Len(t2)] THEN {<<CPCLASS_UNDECIDED, t2>>}
            ELSE
              \* p = taylor_terms[k-2] at the candidate is zero: continue
              HigherTest(k + 1, t2, os)
              \cup
              (IF t2[k - 1] THEN {}
               ELSE
                 \* global_extrema found no candidate on the sphere: break
                 {<<CPCLASS_UNDECIDED, t2>>}
                 \cup
                 UNION {
                   LET v == TaylorVerdict(k, pp[1], pp[2])
                   IN IF v = "next" THEN HigherTest(k + 1, t2, os)
                      ELSE {<<v, t2>>}
                   : pp \in SphereExtrema
                 })
      IN UNION {After(t2) : t2 \in pushed}

\* keys of a gen_map are iterated in their order; points are ordered
\* lexicographically
RECURSIVE LexLess(_, _)
LexLess(a, b) ==
    IF a = <<>> \/ b = <<>> THEN a = <<>> /\ b # <<>>
    ELSE IF Head(a) # Head(b) THEN Head(a) < Head(b)
    ELSE LexLess(Tail(a), Tail(b))

RECURSIVE SortedKeys(_)
SortedKeys(S) ==
    IF S = {} THEN <<>>
    ELSE LET lo == CHOOSE x \in S : \A y \in S \ {x} : LexLess(x, y)
         IN <<lo>> \o SortedKeys(S \ {lo})

\* a switch without its first break: a MIN point also reaches the MAX case
RECURSIVE SelectSeq2Fallthrough(_, _, _)
SelectSeq2Fallthrough(keys, map, cls) ==
    IF keys = <<>> THEN <<>>
    ELSE (IF map[Head(keys)] = cls
             \/ (cls = CPCLASS_MAX /\ map[Head(keys)] = CPCLASS_MIN)
          THEN <<Head(keys)>> ELSE <<>>)
         \o SelectSeq2Fallthrough(Tail(keys), map, cls)

\* the points of the map, in key order, whose class is cls
RECURSIVE SelectSeq2(_, _, _)
SelectSeq2(keys, map, cls) ==
    IF keys = <<>> THEN <<>>
    ELSE (IF map[Head(keys)] = cls THEN <<Head(keys)>> ELSE <<>>)
         \o SelectSeq2(Tail(keys), map, cls)

\* ------------------------------------------------------------ values
Undef == "undef"

Res(kind, err, val, list, minv, maxv) ==
    [kind |-> kind, err |-> err, val |-> val, list |-> list,
     minv |-> minv, maxv |-> maxv]

NoResult == Res("none", "", 0, <<>>, <<>>, <<>>)
ErrorRes(e) == Res("error", e, 0, <<>>, <<>>, <<>>)

\* the map after cpts[key]=value
MapPut(f, k, v) == [x \in (DOMAIN f) \cup {k} |-> IF x = k THEN v ELSE f[x]]

EmptyMap == [x \in {} |-> CPCLASS_UNDECIDED]

Definitive == {CPCLASS_MIN, CPCLASS_MAX, CPCLASS_SADDLE}

Options == {[kind |-> "none", val |-> 0], [kind |-> "lagrange", val |-> 0]}
           \cup {[kind |-> "order", val |-> k] : k \in 0..MaxOrderOpt}

SeqsUpTo(S, n) == UNION {[1..k -> S] : k \in 0..n}

\* no ipdiff object is under observation
EngineIdle ==
    /\ ipd = <<>>
    /\ eret = "none"
    /\ efailed = FALSE

\* no test is under observation
TestsIdle ==
    /\ tin = <<>>
    /\ loop = <<>>

\* no higher-order test is under observation
HigherIdle == hig = <<>>

\* solve_kkt is not under observation
KktIdle == kkt = <<>>

\* no term algebra is under observation
TermsIdle == dt = <<>>

\* no transportation problem is under observation
TransportIdle == tp = <<>>

OthersIdle == KktIdle /\ TermsIdle /\ TransportIdle

AuxIdle == EngineIdle /\ TestsIdle /\ HigherIdle /\ OthersIdle

GlobalIdle ==
    /\ gF = <<>>
    /\ gcv = <<>>
    /\ glocation = FALSE
    /\ mn = 0
    /\ mx = 0
    /\ min_locations = <<>>

\* ------------------------------------------------------------ extrema
InitExtrema ==
    /\ cmd \in {"extrema", "implicitdiff"}
    /\ nv \in 1..MaxVars
    /\ m \in (IF cmd = "extrema" THEN 0 ELSE 1)..MaxVars
    /\ nonsing \in (IF m = 0 THEN {{{}}} ELSE SUBSET ColSubsets(nv, m))
    /\ optarg \in (IF cmd = "extrema" THEN Options
                   ELSE {o \in Options : o.kind # "lagrange"
                                         /\ (o.kind = "none" => m < nv)})
    /\ initialN \in (IF cmd = "extrema" THEN {0, nv - 1, nv} ELSE {0})
    /\ pc = "call"
    /\ order_size = 0
    /\ arrs = <<>>
    /\ ai = 0
    /\ cv = <<>>
    /\ ci = 0
    /\ taylor_terms = <<>>
    /\ cpts = EmptyMap
    /\ result = NoResult
    /\ maxord = 0
    /\ solved = FALSE
    /\ tested = {}
    /\ engines = {}
    /\ kept = {}
    /\ definite = {}
    /\ GlobalIdle
    /\ AuxIdle

\* the value of order_size after the trailing option has been read
ParsedOrderSize(o) ==
    IF o.kind = "lagrange" THEN 0
    ELSE IF o.kind = "order" THEN o.val
    ELSE DefaultOrderSize

\* does the check that guards the search for arrangements apply
jacobian_checked(os, mm) == os > 0 /\ mm # 0

Fail(e) ==
    /\ result' = ErrorRes(e)
    /\ pc' = "done"
    /\ UNCHANGED <<arrs, ai, tested>>

\* _extrema up to the loop over the arrangements
Extrema ==
    /\ cmd = "extrema"
    /\ pc = "call"
    /\ LET os == ParsedOrderSize(optarg)
       IN /\ order_size' = os
          /\ IF optarg.kind = "order" /\ os < 1 THEN Fail("size")
             ELSE IF initialN # 0 /\ initialN < nv THEN Fail("dim")
             ELSE IF os = 0 /\ m = 0 THEN Fail("size")
             ELSE IF jacobian_checked(os, m)
             THEN IF m >= nv \/ rank_deficient(nonsing) THEN Fail("dim")
                  ELSE /\ arrs' = vars_arrangements(nv, m, nonsing)
                       /\ tested' = TestedBlocks(nv, m, nonsing)
                       /\ ai' = 1
                       /\ pc' = "arr"
                       /\ UNCHANGED result
             ELSE /\ arrs' = <<Identity(nv)>>
                  /\ ai' = 1
                  /\ pc' = "arr"
                  /\ UNCHANGED <<result, tested>>
    /\ UNCHANGED <<inputs, cv, ci, taylor_terms, cpts, maxord, solved,
                   engines, kept, definite, gvars, auxvars>>

\* the critical points of a problem with n variables: the first MaxCrit
\* points of the pool
CritPool(n) ==
    LET all == SortedKeys(PointPool(n))
    IN {all[i] : i \in 1..(IF Len(all) < MaxCrit THEN Len(all) ELSE MaxCrit)}

\* the solutions the solver may return: the exact solver up to MaxSol
\* different critical points in any order, the numeric solver (initial
\* point given) at most one
SolverOutputs ==
    {sq \in SeqsUpTo(CritPool(nv), IF initialN # 0 THEN 1 ELSE MaxSol) :
        \A i, j \in 1..Len(sq) : sq[i] = sq[j] => i = j}

\* the solution of the Lagrange system for a point: multipliers first
WithMultipliers(pt, mm) == [j \in 1..mm |-> 0] \o pt

\* find_local_extrema up to the loop over the solutions
FindLocalExtrema ==
    /\ cmd = "extrema"
    /\ pc = "arr"
    /\ ai <= Len(arrs)
    /\ order_size = 0 => m > 0
    /\ solved' = TRUE
    /\ taylor_terms' = <<>>
    /\ kept' = {}
    /\ \E pts \in SolverOutputs :
         LET arr == arrs[ai]
             sols == IF order_size = 0
                     THEN [j \in 1..Len(pts) |-> WithMultipliers(pts[j], m)]
                     ELSE [j \in 1..Len(pts) |-> Arranged(pts[j], arr)]
             \* orders derived before the loop: the gradient, then the
             \* Hessian (of the Lagrangian, or of the engine when nv # 1)
             derived == IF sols = <<>> THEN 1
                        ELSE IF order_size = 0 \/ nv # 1 THEN 2
                        ELSE 1
         IN /\ cv' = sols
            /\ maxord' = derived
            /\ engines' = IF order_size > 0 /\ m > 0
                          THEN engines \cup {arr} ELSE engines
            /\ IF sols = <<>>
               THEN /\ ai' = ai + 1
                    /\ UNCHANGED <<pc, ci>>
               ELSE /\ ci' = 1
                    /\ pc' = "cand"
                    /\ UNCHANGED ai
    /\ UNCHANGED <<inputs, order_size, arrs, cpts, result, tested, definite,
                   gvars, auxvars>>

\* the end of one iteration of a loop over the solutions; after the last
\* one find_local_extrema returns and its locals are gone
NextCandidate(tt) ==
    IF ci < Len(cv)
    THEN /\ ci' = ci + 1
         /\ taylor_terms' = tt
         /\ UNCHANGED <<pc, ai, cv>>
    ELSE /\ pc' = "arr"
         /\ ai' = ai + 1
         /\ ci' = 0
         /\ cv' = <<>>
         /\ taylor_terms' = <<>>

Record(cpt, cls) ==
    /\ cpts' = MapPut(cpts, cpt, cls)
    /\ definite' = IF cls \in Definitive THEN definite \cup {cpt} ELSE definite

\* one iteration of the loop of the Lagrange branch
ClassifyLagrange ==
    /\ cmd = "extrema"
    /\ pc = "cand"
    /\ order_size = 0
    /\ \E cls \in {BorderedTest(s, nv - m, m) : s \in [1..(nv - m) -> Signs]} :
         Record(SubSeq(cv[ci], m + 1, m + nv), cls)
    /\ NextCandidate(taylor_terms)
    /\ UNCHANGED <<inputs, order_size, arrs, result, maxord, solved, tested,
                   engines, kept, gvars, auxvars>>

\* one iteration of the univariate loop
ClassifyUnivariate ==
    /\ cmd = "extrema"
    /\ pc = "cand"
    /\ order_size > 0
    /\ nv = 1
    /\ \E r \in {UnivariateTest(d, order_size) : d \in [2..order_size -> Signs]} :
         /\ Record(cv[ci], r[1])
         /\ maxord' = Max2(maxord, r[2])
    /\ NextCandidate(taylor_terms)
    /\ UNCHANGED <<inputs, order_size, arrs, result, solved, tested, engines,
                   kept, gvars, auxvars>>

\* the test without its second half: every candidate is classified again
skip_candidate_order_only(os, cpt_class) == os = 1

\* is the candidate left as it is in the map
skip_candidate(os, cpt_class) == os = 1 \/ ~is_zero_class(cpt_class)

\* one iteration of the multivariate loop
ClassifyMultivariate ==
    /\ cmd = "extrema"
    /\ pc = "cand"
    /\ order_size > 0
    /\ nv # 1
    /\ LET cpt_arr == Unarrange(cv[ci], arrs[ai])
           known == cpt_arr \in DOMAIN cpts
           cpt_class == IF known THEN cpts[cpt_arr] ELSE CPCLASS_UNDECIDED
       IN IF skip_candidate(order_size, cpt_class)
          THEN /\ cpts' = MapPut(cpts, cpt_arr, cpt_class)
               /\ kept' = IF known /\ ~is_zero_class(cpt_class)
                          THEN kept \cup {cpt_arr} ELSE kept
               /\ NextCandidate(taylor_terms)
               /\ UNCHANGED <<maxord, definite>>
          ELSE /\ UNCHANGED kept
               /\ \E cls \in {EigenTest(eig) : eig \in [1..(nv - m) -> Signs]} :
                       IF cls = CPCLASS_UNDECIDED /\ order_size >= 2
                       THEN \E r \in HigherTest(2, taylor_terms, order_size) :
                              /\ Record(cpt_arr, r[1])
                              /\ NextCandidate(r[2])
                              /\ maxord' = Max2(maxord, Len(r[2]) + 1)
                       ELSE /\ Record(cpt_arr, cls)
                            /\ NextCandidate(taylor_terms)
                            /\ UNCHANGED maxord
    /\ UNCHANGED <<inputs, order_size, arrs, result, solved, tested, engines,
                   gvars, auxvars>>

\* does _extrema return the bare list of critical points
returns_list(os) == os = 1

\* _extrema after the loop over the arrangements
ExtremaReturn ==
    /\ cmd = "extrema"
    /\ pc = "arr"
    /\ ai > Len(arrs)
    /\ LET keys == SortedKeys(DOMAIN cpts)
       IN result' = IF returns_list(order_size)
                    THEN Res("list", "", 0, keys, <<>>, <<>>)
                    ELSE Res("minmax", "", 0, <<>>,
                             SelectSeq2(keys, cpts, CPCLASS_MIN),
                             SelectSeq2(keys, cpts, CPCLASS_MAX))
    /\ pc' = "done"
    /\ UNCHANGED <<inputs, order_size, arrs, ai, cv, ci, taylor_terms, cpts,
                   maxord, solved, tested, engines, kept, definite, gvars, auxvars>>

\* ------------------------------------------------------- implicitdiff
\* _implicitdiff: the checks, the regularity test, then the engine
ImplicitDiff ==
    /\ cmd = "implicitdiff"
    /\ pc = "call"
    /\ pc' = "done"
    /\ IF optarg.kind = "order" /\ optarg.val <= 0
       THEN /\ result' = ErrorRes("dim")
            /\ UNCHANGED <<tested, engines, maxord>>
       ELSE IF optarg.kind = "order" /\ nv <= m
       THEN /\ result' = ErrorRes("size")
            /\ UNCHANGED <<tested, engines, maxord>>
       ELSE IF ~ck_jacobian(nv, m, nonsing)
       THEN /\ result' = ErrorRes("dim")
            /\ tested' = {}
            /\ UNCHANGED <<engines, maxord>>
       ELSE /\ tested' = {Block(Identity(nv), m)} \cap nonsing
            /\ engines' = {Identity(nv)}
            /\ \E k \in 1..MaxOrderOpt :
                 /\ optarg.kind = "order" => k = optarg.val
                 /\ maxord' = k
            /\ result' = Res("value", "", 0, <<>>, <<>>, <<>>)
    /\ UNCHANGED <<inputs, order_size, arrs, ai, cv, ci, taylor_terms, cpts,
                   solved, kept, definite, gvars, auxvars>>

NextExtrema ==
    \/ Extrema
    \/ FindLocalExtrema
    \/ ClassifyLagrange
    \/ ClassifyUnivariate
    \/ ClassifyMultivariate
    \/ ExtremaReturn
    \/ ImplicitDiff

Spec == InitExtrema /\ [][NextExtrema]_vars

\* ----------------------------------------------------- global_extrema
Vals == (0 - MaxVal)..MaxVal

\* gen mn,mx: a default-constructed gen is the integer 0
GenDefault == 0

Range(s) == {s[i] : i \in 1..Len(s)}

is_strictly_greater(a, b) == a > b

\* is_exactly_zero(_ratnormal(val-mn))
equals_minimum(val, mnv) == val - mnv = 0

\* the branch without the search for the point in the list
add_location_unchecked(locs, it) == Append(locs, it)

\* the branch taken when the value of a candidate equals the minimum
add_location(locs, it) == IF it \in Range(locs) THEN locs ELSE Append(locs, it)

\* the loop over the candidates; st holds mn, mx, min_set, max_set and
\* min_locations
RECURSIVE GlobalLoop(_, _, _, _)
GlobalLoop(F, cvs, i, st) ==
    IF i > Len(cvs) THEN st
    ELSE
      LET it == cvs[i]
          val == F[it]
          st1 == IF st.min_set /\ equals_minimum(val, st.mn)
                 THEN [st EXCEPT !.min_locations = add_location(@, it)]
                 ELSE IF ~st.min_set \/ is_strictly_greater(st.mn, val)
                 THEN [st EXCEPT !.mn = val, !.min_set = TRUE,
                                 !.min_locations = <<it>>]
                 ELSE st
          st2 == IF ~st1.max_set \/ is_strictly_greater(val, st1.mx)
                 THEN [st1 EXCEPT !.mx = val, !.max_set = TRUE]
                 ELSE st1
      IN GlobalLoop(F, cvs, i + 1, st2)

\* if (cv.empty()) return vecteur(0);
no_candidates(cvs) == cvs = <<>>

\* global_extrema for the objective F (a function of the point), the
\* candidates cvs the solver found, n variables and the references mn0, mx0
global_extrema(F, cvs, n, mn0, mx0) ==
    IF no_candidates(cvs)
    THEN [loc |-> <<>>, mn |-> mn0, mx |-> mx0]
    ELSE LET st == GlobalLoop(F, cvs, 1,
                       [mn |-> mn0, mx |-> mx0, min_set |-> FALSE,
                        max_set |-> FALSE, min_locations |-> <<>>])
         IN [loc |-> IF n = 1
                     THEN [i \in 1..Len(st.min_locations) |->
                              st.min_locations[i][1]]
                     ELSE st.min_locations,
             mn |-> st.mn, mx |-> st.mx]

\* the test left out: a value is returned whatever the list is
no_extremum_never(loc) == FALSE

\* if (loc.empty()) return undef;
no_extremum(loc) == loc = <<>>

\* the value _minimize returns from what global_extrema computed
minimize_result(ge, location) ==
    IF no_extremum(ge.loc) THEN Res("undef", "", 0, <<>>, <<>>, <<>>)
    ELSE IF location THEN Res("seq", "", ge.mn, ge.loc, <<>>, <<>>)
    ELSE Res("value", "", ge.mn, <<>>, <<>>, <<>>)

\* -f
NegF(F) == [p \in DOMAIN F |-> 0 - F[p]]

\* only a bare value is negated, a sequence is passed through
negate_result_value_only(res) ==
    IF res.kind = "value" THEN [res EXCEPT !.val = 0 - @] ELSE res

\* what _maximize does to the result of _minimize: the front of a sequence
\* is negated, a value is negated, and the negative of undef is undef
negate_result(res) ==
    IF res.kind = "seq" THEN [res EXCEPT !.val = 0 - @]
    ELSE IF res.kind = "value" THEN [res EXCEPT !.val = 0 - @]
    ELSE res

ExtremaIdle ==
    /\ m = 0
    /\ nonsing = {}
    /\ optarg = [kind |-> "none", val |-> 0]
    /\ initialN = 0
    /\ order_size = 0
    /\ arrs = <<>>
    /\ ai = 0
    /\ cv = <<>>
    /\ ci = 0
    /\ taylor_terms = <<>>
    /\ cpts = EmptyMap
    /\ maxord = 0
    /\ solved = FALSE
    /\ tested = {}
    /\ engines = {}
    /\ kept = {}
    /\ definite = {}

InitGlobal ==
    /\ cmd \in {"minimize", "maximize"}
    /\ nv \in 1..MaxVars
    /\ gF \in [PointPool(nv) -> Vals]
    /\ gcv \in SeqsUpTo(PointPool(nv), MaxCand)
    /\ glocation \in BOOLEAN
    /\ mn = GenDefault
    /\ mx = GenDefault
    /\ min_locations = <<>>
    /\ pc = "call"
    /\ result = NoResult
    /\ ExtremaIdle
    /\ AuxIdle

GlobalFrame ==
    UNCHANGED <<cmd, nv, m, nonsing, optarg, initialN, order_size, arrs,
                ai, cv, ci, taylor_terms, cpts, maxord, solved, tested,
                engines, kept, definite, gF, gcv, glocation, auxvars>>

\* _minimize
Minimize ==
    /\ cmd = "minimize"
    /\ pc = "call"
    /\ LET ge == global_extrema(gF, gcv, nv, mn, mx)
       IN /\ mn' = ge.mn
          /\ mx' = ge.mx
          /\ min_locations' = ge.loc
          /\ result' = minimize_result(ge, glocation)
    /\ pc' = "done"
    /\ GlobalFrame

\* _maximize
Maximize ==
    /\ cmd = "maximize"
    /\ pc = "call"
    /\ LET ge == global_extrema(NegF(gF), gcv, nv, mn, mx)
       IN /\ mn' = ge.mn
          /\ mx' = ge.mx
          /\ min_locations' = ge.loc
          /\ result' = negate_result(minimize_result(ge, glocation))
    /\ pc' = "done"
    /\ GlobalFrame

NextGlobal ==
    \/ Minimize
    \/ Maximize

SpecGlobal == InitGlobal /\ [][NextGlobal]_vars

\* ------------------------------------------------------------ claims
Multivariate == cmd = "extrema" /\ order_size >= 2 /\ nv >= 2

\* C1: in the multivariate classification with order_size >= 2, a point
\* that holds a class other than UNDECIDED in the map keeps that class in
\* every later step, whatever later arrangements find for it.
C1_ClassRetained ==
    [][Multivariate =>
         \A p \in DOMAIN cpts :
            cpts[p] # CPCLASS_UNDECIDED =>
               p \in DOMAIN cpts' /\ cpts'[p] = cpts[p]]_vars

\* a point with a definitive class was found again under a later
\* arrangement and all arrangements have been processed
C1_Witness ==
    /\ Multivariate
    /\ pc = "done"
    /\ \E p \in kept : cpts[p] \in Definitive

\* C2: when all arrangements have been processed, a point that some
\* arrangement classified as MIN, MAX or SADDLE is not UNDECIDED.
C2_DefinitiveNotLost ==
    (Multivariate /\ pc = "done") =>
        \A p \in definite : p \in DOMAIN cpts /\ cpts[p] # CPCLASS_UNDECIDED

\* two arrangements were processed, one of them gave a definitive verdict
\* for a point and the other one found the same point
C2_Witness ==
    /\ Multivariate
    /\ pc = "done"
    /\ Len(arrs) >= 2
    /\ \E p \in definite : p \in kept

\* C3: when extrema returns two lists, a point of the map is in the first
\* iff its class is MIN and in the second iff its class is MAX; points of
\* any other class are in neither and no point is in both.
C3_MinMaxLists ==
    (cmd = "extrema" /\ pc = "done" /\ result.kind = "minmax") =>
        /\ \A p \in DOMAIN cpts :
              /\ p \in Range(result.minv) <=> cpts[p] = CPCLASS_MIN
              /\ p \in Range(result.maxv) <=> cpts[p] = CPCLASS_MAX
        /\ Range(result.minv) \cup Range(result.maxv) \subseteq DOMAIN cpts
        /\ Range(result.minv) \cap Range(result.maxv) = {}

\* two lists were returned for a map holding a MIN point and a point that
\* is neither MIN nor MAX
C3_Witness ==
    /\ cmd = "extrema"
    /\ pc = "done"
    /\ result.kind = "minmax"
    /\ result.minv # <<>>
    /\ \E p \in DOMAIN cpts : cpts[p] \notin {CPCLASS_MIN, CPCLASS_MAX}

\* the objective global_extrema was called with
Objective == IF cmd = "maximize" THEN NegF(gF) ELSE gF

\* the candidates as they appear in the returned list
Candidate(i) == IF nv = 1 THEN gcv[i][1] ELSE gcv[i]

Candidates == {Candidate(i) : i \in 1..Len(gcv)}

ValueAt(c) == IF nv = 1 THEN Objective[<<c>>] ELSE Objective[c]

GlobalDone == cmd \in {"minimize", "maximize"} /\ pc = "done"

\* C4: after global_extrema has processed a non-empty candidate list, mn is
\* at most and mx at least the objective value at every candidate, and the
\* returned list holds exactly the candidates whose value is mn, each once.
C4_GlobalExtrema ==
    (GlobalDone /\ gcv # <<>>) =>
        /\ \A c \in Candidates : mn <= ValueAt(c) /\ ValueAt(c) <= mx
        /\ Range(min_locations) = {c \in Candidates : ValueAt(c) = mn}
        /\ \A i, j \in 1..Len(min_locations) :
              min_locations[i] = min_locations[j] => i = j

\* a list in which a minimizer is repeated and another candidate is larger
C4_Witness ==
    /\ GlobalDone
    /\ mn < mx
    /\ \E i, j \in 1..Len(gcv) :
          i # j /\ gcv[i] = gcv[j] /\ ValueAt(Candidate(i)) = mn

\* C5: the returned list is empty iff there is no candidate; then mn and mx
\* are untouched and the command returns undef; otherwise the list is not
\* empty and mn and mx are values of the objective at candidates.
C5_EmptyCandidates ==
    GlobalDone =>
        /\ min_locations = <<>> <=> gcv = <<>>
        /\ gcv = <<>> =>
              /\ mn = GenDefault
              /\ mx = GenDefault
              /\ result.kind = "undef"
        /\ gcv # <<>> =>
              /\ result.kind # "undef"
              /\ \E c \in Candidates : mn = ValueAt(c)
              /\ \E c \in Candidates : mx = ValueAt(c)

\* minimize was called for a problem without candidates
C5_Witness ==
    /\ cmd = "minimize"
    /\ pc = "done"
    /\ gcv = <<>>
    /\ result.kind = "undef"

\* C6: maximize returns the largest value of f over the candidates, and
\* with the location option the list global_extrema returned for -f, which
\* holds the candidates where f is largest; without candidates it returns
\* undef as minimize does.
C6_Maximize ==
    (cmd = "maximize" /\ pc = "done") =>
        IF gcv = <<>> THEN result.kind = "undef"
        ELSE /\ result.kind = (IF glocation THEN "seq" ELSE "value")
             /\ \E i \in 1..Len(gcv) : result.val = gF[gcv[i]]
             /\ \A i \in 1..Len(gcv) : gF[gcv[i]] <= result.val
             /\ result.val = 0 - mn
             /\ glocation =>
                   /\ result.list = min_locations
                   /\ Range(result.list) =
                         {c \in Candidates : 0 - ValueAt(c) = result.val}

\* maximize with the location option, candidates of different value and a
\* non-zero maximum
C6_Witness ==
    /\ cmd = "maximize"
    /\ pc = "done"
    /\ glocation
    /\ result.kind = "seq"
    /\ result.val # 0
    /\ \E i \in 1..Len(gcv) : gF[gcv[i]] < result.val

\* the arguments of extrema are well formed: initial values for none or all
\* of the variables, fewer constraints than variables, a Jacobian of full rank
WellFormed ==
    /\ initialN \in {0, nv}
    /\ m = 0 \/ (m < nv /\ ~rank_deficient(nonsing))

\* C7: extrema with order_size=0 returns the critical points as one list,
\* and with order_size=1 it returns a list of minima and a list of maxima.
C7_OrderSizeModes ==
    (cmd = "extrema" /\ pc = "done" /\ optarg.kind = "order" /\ WellFormed) =>
        /\ optarg.val = 0 => result.kind = "list"
        /\ optarg.val = 1 => result.kind = "minmax"

\* C8: with order_size = s >= 1 no derivative of the objective of an order
\* greater than s is requested.
C8_OrderBound ==
    (cmd = "extrema" /\ order_size >= 1) => maxord <= order_size

\* C9: extrema with at least as many constraints as variables, or with a
\* Jacobian of deficient rank, never asks the solver for candidates and
\* returns an error, a dimension error when nothing else is wrong.
C9_DimensionError ==
    (cmd = "extrema" /\ m > 0 /\ (m >= nv \/ rank_deficient(nonsing))) =>
        /\ ~solved
        /\ pc = "done" =>
              /\ result.kind = "error"
              /\ (optarg.kind # "order" \/ optarg.val >= 1) => result.err = "dim"

\* C10: a constrained engine exists only for an ordering whose block over
\* the last m variables was tested and has a non-zero determinant, and a
\* derivative is requested from an engine only.
C10_EngineRegular ==
    /\ \A o \in engines :
          /\ Block(o, m) \in tested
          /\ ~det_is_zero(Block(o, m), nonsing)
    /\ (m > 0 /\ maxord > 0 /\ (cmd = "implicitdiff" \/ order_size > 0)) =>
          engines # {}

\* extrema built an engine for an ordering that passed the test while the
\* block of another ordering is singular
C10_Witness ==
    /\ cmd = "extrema"
    /\ pc = "done"
    /\ engines # {}
    /\ maxord > 0
    /\ \E S \in ColSubsets(nv, m) : det_is_zero(S, nonsing)

\* the critical points of the problems with n variables, as pairs <<n, p>>
CriticalPoints ==
    UNION {{<<n, p>> : p \in CritPool(n)} : n \in 1..MaxVars}

\* C12: every key of the classification map is a critical point written in
\* the original variable order, whatever arrangement it was found under;
\* coordinate j of a solution goes to position arr[j], so under each of the
\* arrangements of the call the key of a critical point is the point itself.
C12_OriginalOrder ==
    cmd = "extrema" =>
        /\ \A p \in DOMAIN cpts : <<nv, p>> \in CriticalPoints
        /\ pc = "done" =>
              \A i \in 1..Len(arrs) :
              \A p \in {q \in Points(nv) : <<nv, q>> \in CriticalPoints} :
                 LET sol == Arranged(p, arrs[i])
                     key == Unarrange(sol, arrs[i])
                 IN /\ key = p
                    /\ \A j \in 1..nv : key[arrs[i][j] + 1] = sol[j]

\* a point that an arrangement moves was recorded under an earlier
\* arrangement and found again by the last call
C12_Witness ==
    /\ cmd = "extrema"
    /\ pc = "done"
    /\ order_size >= 2
    /\ Len(arrs) >= 2
    /\ \E p \in kept :
          /\ p \in DOMAIN cpts
          /\ \A j \in 1..(Len(arrs) - 1) : Arranged(p, arrs[j]) # p

\* ------------------------------------------------------------- ipdiff
\* The object is observed through the keys of its caches.  pdv is keyed by
\* the multi-indices over the independent variables; the raw partials pdf
\* and pdg, the derivatives pdh of the implicit functions and the term
\* expansions cterms are written for all multi-indices of an order at a
\* time and are recorded by order.  dflt names the caches holding an entry
\* that operator[] created before the computation of its value failed.
Zeros(n) == [i \in 1..n |-> 0]

\* ipdiff::ipdiff with at least one constraint
NewEngine(n) ==
    [nvars |-> n, ord |-> 0, pdv |-> {Zeros(n)}, pdh |-> {}, pdg |-> {},
     pdf |-> {}, cterms |-> {}, dflt |-> {}]

RECURSIVE IpInner(_, _, _, _, _, _), IpOuter(_, _, _, _, _)
\* the loop over j in ipartition for position i; r is the running vector.
\* The list a recursive call returns is evaluated (its length taken) before
\* the loop goes on, as the call returns before the next iteration starts.
IpInner(mm, n, c, r, i, j) ==
    IF j >= mm THEN c
    ELSE LET r2 == [x \in 1..Len(r) |->
                      IF x = i + 1 THEN r[x] + 1 ELSE r[x]]
             sm == SumSeq(r2)
         IN IF sm = mm /\ r2 \notin Range(c)
            THEN IpInner(mm, n, Append(c, r2), r2, i, j + 1)
            ELSE IF sm < mm
            THEN LET c2 == IpOuter(mm, n, c, r2, 0)
                 IN IF Len(c2) >= 0
                    THEN IpInner(mm, n, c2, r2, i, j + 1) ELSE c2
            ELSE c

\* the loop over i in ipartition(m,n,c,p)
IpOuter(mm, n, c, p, i) ==
    IF i >= n THEN c
    ELSE IF p # <<>> /\ p[i + 1] # 0 THEN IpOuter(mm, n, c, p, i + 1)
    ELSE LET c2 == IpInner(mm, n, c, IF p = <<>> THEN Zeros(n) ELSE p, i, 0)
         IN IF Len(c2) >= 0 THEN IpOuter(mm, n, c2, p, i + 1) ELSE c2

\* ipartition(m,n,c) on an empty list c
ipartition(mm, n) == IpOuter(mm, n, <<>>, <<>>, 0)

\* get_pd(pdv,sig): the entry, or the undef sentinel when there is none
get_pd(e, sig) == IF sig \in e.pdv THEN "value" ELSE Undef

\* where compute_h can fail: deriving a partial of a constraint, without or
\* with the entry pds[sig] created first, or inverting the system
HFailures == {"derive", "derive_entry", "inv"}

\* the outcomes of S in which a kernel call failed: the exception leaves
\* the calling method at once
Failed(S) == {o \in S : o[2] = "fail"}

\* the objects of the outcomes of S in which the call returned
Returning(S) == {o[1] : o \in {x \in S : x[2] = "ok"}}

\* raise_order(order): the outcomes <<object, "ok" or "fail">>
raise_order(e, order) ==
    LET done == [e EXCEPT !.cterms = @ \cup ((e.ord + 1)..order),
                          !.pdg = @ \cup ((e.ord + 1)..order),
                          !.pdh = @ \cup ((e.ord + 1)..order),
                          !.ord = order]
        \* compute_h(grv,k) fails; the orders below k are complete
        failed(k, how) ==
            [e EXCEPT !.cterms = @ \cup ((e.ord + 1)..k),
                      !.pdh = @ \cup ((e.ord + 1)..(k - 1)),
                      !.pdg = @ \cup ((e.ord + 1)..
                                        (IF how = "inv" THEN k ELSE k - 1)),
                      !.dflt = IF how = "derive_entry"
                               THEN @ \cup {"pdg"} ELSE @]
    IN {<<done, "ok">>}
       \cup {<<failed(k, how), "fail">> :
                k \in (e.ord + 1)..order, how \in HFailures}

\* compute_pd(order,sig); sig = <<>> stands for the default argument
compute_pd(e, order, sig) ==
    LET c == ipartition(order, e.nvars)
        todo == SelectSeq(c, LAMBDA ct : sig = <<>> \/ sig = ct)
        upto(i) == {todo[j] : j \in 1..i}
        done == [e EXCEPT !.pdv = @ \cup upto(Len(todo)),
                          !.pdf = IF todo = <<>> THEN @ ELSE @ \cup {order}]
        \* a kernel call fails while the i-th multi-index is computed
        failed(i, entry) ==
            [e EXCEPT !.pdv = @ \cup upto(i - 1),
                      !.pdf = IF i > 1 THEN @ \cup {order} ELSE @,
                      !.dflt = IF entry THEN @ \cup {"pdf"} ELSE @]
    IN {<<done, "ok">>}
       \cup {<<failed(i, entry), "fail">> :
                i \in 1..Len(todo), entry \in BOOLEAN}

\* raise_order(order); compute_pd(order,sig);
Resolve(e, order, sig) ==
    Failed(raise_order(e, order))
    \cup UNION {compute_pd(x, order, sig) :
                  x \in Returning(raise_order(e, order))}

\* derivative(sig) up to its return statement
derivative(e, sig) ==
    IF SumSeq(sig) > e.ord THEN Resolve(e, SumSeq(sig), sig)
    ELSE {<<e, "ok">>}

\* if (ord<order) { raise_order(order); compute_pd(order); }
Ensure(e, order) ==
    IF e.ord < order THEN Resolve(e, order, <<>>) ELSE {<<e, "ok">>}

\* taylor_term: while (k>ord) { raise_order(ord+1); compute_pd(ord); }
RECURSIVE TaylorRaise(_, _)
TaylorRaise(e, k) ==
    IF k > e.ord
    THEN Failed(Resolve(e, e.ord + 1, <<>>))
         \cup UNION {TaylorRaise(y, k) :
                       y \in Returning(Resolve(e, e.ord + 1, <<>>))}
    ELSE {<<e, "ok">>}

\* what a call returns that reads the derivatives asked through derivative
Returned(e, asked) == IF \A sg \in asked : get_pd(e, sg) # Undef
                      THEN "value" ELSE Undef

AllSigs(n) == UNION {Range(ipartition(k, n)) : k \in 1..MaxDerivOrder}

InitEngine ==
    /\ cmd = "ipdiff"
    /\ nv = 0
    /\ pc = "call"
    /\ result = NoResult
    /\ ExtremaIdle
    /\ GlobalIdle
    /\ ipd \in {NewEngine(n) : n \in 1..MaxFree}
    /\ eret = "none"
    /\ efailed = FALSE
    /\ TestsIdle
    /\ HigherIdle
    /\ OthersIdle

\* one call on the object with the outcomes outs, reading the multi-indices
\* asked
EngineCall(outs, asked) ==
    /\ \E o \in outs :
         /\ ipd' = o[1]
         /\ eret' = IF o[2] = "fail" THEN "error" ELSE Returned(o[1], asked)
         /\ efailed' = (efailed \/ o[2] = "fail")
    /\ UNCHANGED <<exvars, gvars, tvars, hvars, kvars, dvars, pvars>>

IpdGradient ==
    /\ cmd = "ipdiff"
    /\ EngineCall(Ensure(ipd, 1), Range(ipartition(1, ipd.nvars)))

IpdHessian ==
    /\ cmd = "ipdiff"
    /\ EngineCall(Ensure(ipd, 2), Range(ipartition(2, ipd.nvars)))

IpdDerivative ==
    /\ cmd = "ipdiff"
    /\ \E sig \in AllSigs(ipd.nvars) : EngineCall(derivative(ipd, sig), {sig})

IpdPartialDerivatives ==
    /\ cmd = "ipdiff"
    /\ \E order \in 0..MaxDerivOrder :
         EngineCall(Ensure(ipd, order), Range(ipartition(order, ipd.nvars)))

IpdTaylorTerm ==
    /\ cmd = "ipdiff"
    /\ \E k \in 1..MaxDerivOrder :
         EngineCall(TaylorRaise(ipd, k), Range(ipartition(k, ipd.nvars)))

NextEngine ==
    \/ IpdGradient
    \/ IpdHessian
    \/ IpdDerivative
    \/ IpdPartialDerivatives
    \/ IpdTaylorTerm

SpecEngine == InitEngine /\ [][NextEngine]_vars

\* C11: a call on a constrained ipdiff that reads derivatives through
\* derivative(sig) never gets the undef sentinel, whatever calls came
\* before it, as long as no kernel call has failed.
C11_NeverUndef ==
    (cmd = "ipdiff" /\ ~efailed) => eret # Undef

\* C14: a call on an ipdiff in which a kernel call fails leaves the order
\* and all caches of the object as they were before the call.
C14_FailureAtomic ==
    [][(cmd = "ipdiff" /\ eret' = "error") => ipd' = ipd]_vars

\* ------------------------------------------- the tests, one step at a time
\* The loops of find_local_extrema that classify one candidate, taken one
\* iteration at a time.  tin holds what the test is run on: the signs the
\* kernel reports (of the minors, of the eigenvalues, of the derivatives)
\* and the sizes; loop holds the locals of the loop: the index k, cls, e,
\* the indices whose determinant, eigenvalue or derivative was inspected
\* (in the order of inspection), whether the loop was left, and the
\* verdict recorded for the candidate.

NewLoop(first, last) ==
    [k |-> first, cls |-> CPCLASS_UNDECIDED, e |-> 0, seen |-> <<>>,
     done |-> first > last,
     rec |-> IF first > last THEN CPCLASS_UNDECIDED ELSE "none"]

\* the loop is left and cls is recorded for the candidate
Break(l, c) ==
    [l EXCEPT !.cls = c, !.seen = Append(@, l.k), !.done = TRUE, !.rec = c]

\* the next iteration, or the end of the loop after the last index
Continue(l, c, last) ==
    IF l.k + 1 > last THEN Break(l, c)
    ELSE [l EXCEPT !.cls = c, !.seen = Append(@, l.k), !.k = l.k + 1]

zero_minor_never(s) == FALSE

\* is_zero(s) for the sign s of a minor
zero_minor(s) == s = 0

saddle_is_kept_never(cls) == FALSE

\* a saddle verdict skips the comparison of the signs
saddle_is_kept(cls) == cls = CPCLASS_SADDLE

max_pattern_fixed(s, mm, k) == s * MinusOnePow(mm + 1) > 0

\* the sign of the k-th minor fits a maximum
max_pattern(s, mm, k) == s * MinusOnePow(mm + k) > 0

\* the sign of a minor fits a minimum
min_pattern(s, mm) == s * MinusOnePow(mm) > 0

\* one iteration of the loop over the minors of the bordered Hessian
BorderedStep(l, s, n, mm) ==
    IF zero_minor(s[l.k]) THEN Break(l, CPCLASS_UNDECIDED)
    ELSE IF saddle_is_kept(l.cls) THEN Continue(l, l.cls, n)
    ELSE IF l.cls # CPCLASS_MAX /\ min_pattern(s[l.k], mm)
         THEN Continue(l, CPCLASS_MIN, n)
    ELSE IF l.cls # CPCLASS_MIN /\ max_pattern(s[l.k], mm, l.k)
         THEN Continue(l, CPCLASS_MAX, n)
    ELSE Continue(l, CPCLASS_SADDLE, n)

eigen_signs_differ_never(e, et) == FALSE

\* the eigenvalue et has the sign opposite to the first eigenvalue e
eigen_signs_differ(e, et) == (0 - e) * et > 0

\* one iteration of the loop over the eigenvalues of the Hessian
EigenStep(l, eig) ==
    LET et == eig[l.k]
        n == Len(eig)
    IN IF et = 0 THEN Break(l, CPCLASS_UNDECIDED)
       ELSE IF l.e = 0
            THEN Continue([l EXCEPT !.e = et],
                          IF et >= 0 THEN CPCLASS_MIN ELSE CPCLASS_MAX, n)
       ELSE IF eigen_signs_differ(l.e, et)
            THEN Continue(l, CPCLASS_SADDLE, n)
       ELSE Continue(l, l.cls, n)

odd_order_never(k) == FALSE

\* the order of the derivative is odd
odd_order(k) == k % 2 # 0

\* one iteration of the loop over the derivatives at a critical point of a
\* function of one variable
UnivariateStep(l, d, os) ==
    IF d[l.k] = 0 THEN Continue(l, l.cls, os)
    ELSE IF odd_order(l.k) THEN Break(l, CPCLASS_SADDLE)
    ELSE Break(l, IF d[l.k] > 0 THEN CPCLASS_MIN ELSE CPCLASS_MAX)

\* what the message of _extrema calls a point of class SADDLE
saddle_message(n) == IF n = 1 THEN "inflection point" ELSE "saddle point"

TestInputs ==
    {[kind |-> "bordered", n |-> Len(s), m |-> mm, os |-> 0, sig |-> s] :
        s \in SeqsUpTo(Signs, MaxTestSize) \ {<<>>}, mm \in 1..MaxVars}
    \cup
    {[kind |-> "eigen", n |-> Len(s), m |-> 0, os |-> 0, sig |-> s] :
        s \in SeqsUpTo(Signs, MaxTestSize) \ {<<>>}}
    \cup
    UNION {{[kind |-> "univariate", n |-> 1, m |-> 0, os |-> os, sig |-> d] :
               d \in [2..os -> Signs]} : os \in 1..MaxTestOrder}

InitTests ==
    /\ cmd = "find_local_extrema"
    /\ nv = 0
    /\ pc = "test"
    /\ result = NoResult
    /\ ExtremaIdle
    /\ GlobalIdle
    /\ EngineIdle
    /\ HigherIdle
    /\ OthersIdle
    /\ tin \in TestInputs
    /\ loop = IF tin.kind = "univariate" THEN NewLoop(2, tin.os)
              ELSE NewLoop(1, tin.n)

TestFrame ==
    UNCHANGED <<exvars, gvars, evars, hvars, kvars, dvars, pvars, tin>>

BorderedMinor ==
    /\ tin # <<>> /\ tin.kind = "bordered" /\ ~loop.done
    /\ loop' = BorderedStep(loop, tin.sig, tin.n, tin.m)
    /\ TestFrame

EigenValue ==
    /\ tin # <<>> /\ tin.kind = "eigen" /\ ~loop.done
    /\ loop' = EigenStep(loop, tin.sig)
    /\ TestFrame

UnivariateDerivative ==
    /\ tin # <<>> /\ tin.kind = "univariate" /\ ~loop.done
    /\ loop' = UnivariateStep(loop, tin.sig, tin.os)
    /\ TestFrame

NextTests ==
    \/ BorderedMinor
    \/ EigenValue
    \/ UnivariateDerivative

SpecTests == InitTests /\ [][NextTests]_vars

TestOf(kind) == tin # <<>> /\ tin.kind = kind

\* C15: the eigenvalue test gives UNDECIDED when some eigenvalue is zero,
\* MIN when all are strictly positive, MAX when all are strictly negative
\* and SADDLE when all are non-zero and both signs occur, whatever the
\* order of the eigenvalues; this is also what EigenTest computes.
C15_EigenMapping ==
    (TestOf("eigen") /\ loop.done) =>
        LET eig == tin.sig
            I == 1..Len(eig)
        IN /\ loop.rec = EigenTest(eig)
           /\ (\E i \in I : eig[i] = 0) => loop.rec = CPCLASS_UNDECIDED
           /\ (\A i \in I : eig[i] > 0) => loop.rec = CPCLASS_MIN
           /\ (\A i \in I : eig[i] < 0) => loop.rec = CPCLASS_MAX
           /\ ((\A i \in I : eig[i] # 0) /\ (\E i \in I : eig[i] > 0)
                  /\ (\E i \in I : eig[i] < 0))
              => loop.rec = CPCLASS_SADDLE

C15_Witness ==
    /\ TestOf("eigen") /\ loop.done /\ loop.rec = CPCLASS_SADDLE
    /\ Len(tin.sig) = 3 /\ tin.sig[1] = tin.sig[3] /\ tin.sig[2] # tin.sig[1]

AllNonZero == \A k \in 1..tin.n : tin.sig[k] # 0

MinPattern == \A k \in 1..tin.n : tin.sig[k] = MinusOnePow(tin.m)

MaxPattern == \A k \in 1..tin.n : tin.sig[k] = MinusOnePow(tin.m + k)

\* C16: when the n minors of the bordered Hessian are all non-zero, the
\* verdict is MIN iff every minor has the sign (-1)^m, MAX iff the k-th
\* minor has the sign (-1)^(m+k) for every k, and SADDLE for every other
\* pattern of signs; this is also what BorderedTest computes.
C16_SignPatterns ==
    (TestOf("bordered") /\ loop.done /\ AllNonZero) =>
        /\ loop.rec = BorderedTest(tin.sig, tin.n, tin.m)
        /\ loop.rec = CPCLASS_MIN <=> MinPattern
        /\ loop.rec = CPCLASS_MAX <=> MaxPattern
        /\ (~MinPattern /\ ~MaxPattern) => loop.rec = CPCLASS_SADDLE

C16_Witness ==
    /\ TestOf("bordered") /\ loop.done /\ AllNonZero
    /\ tin.n = 3 /\ tin.m = 2 /\ MaxPattern /\ loop.rec = CPCLASS_MAX

\* the index of the first zero minor, 0 when there is none
FirstZero ==
    IF \E k \in 1..tin.n : tin.sig[k] = 0
    THEN CHOOSE k \in 1..tin.n :
            tin.sig[k] = 0 /\ \A j \in 1..(k - 1) : tin.sig[j] # 0
    ELSE 0

\* C17: the minors are inspected in increasing size; no minor larger than
\* the first zero minor is inspected, and when the test has ended on a
\* candidate with a zero minor it has inspected exactly the minors up to
\* that one and recorded UNDECIDED.
C17_ZeroMinorStops ==
    TestOf("bordered") =>
        /\ \A i \in 1..Len(loop.seen) : loop.seen[i] = i
        /\ FirstZero # 0 =>
              /\ Len(loop.seen) <= FirstZero
              /\ loop.done =>
                    /\ Len(loop.seen) = FirstZero
                    /\ loop.rec = CPCLASS_UNDECIDED
                    /\ loop.rec = BorderedTest(tin.sig, tin.n, tin.m)

C17_Witness ==
    /\ TestOf("bordered") /\ loop.done /\ tin.n = 3 /\ FirstZero = 2
    /\ tin.sig[3] # 0 /\ loop.rec = CPCLASS_UNDECIDED

\* C18 as stated: once cls is SADDLE it stays SADDLE in every later
\* iteration, so SADDLE is what is recorded for the candidate.
C18_SaddleTerminal ==
    [][(TestOf("bordered") /\ loop.cls = CPCLASS_SADDLE)
          => (loop'.cls = CPCLASS_SADDLE
              /\ (loop'.done => loop'.rec = CPCLASS_SADDLE))]_vars

\* C18, amended: once cls is SADDLE it stays SADDLE through every later
\* minor that is not zero, and SADDLE is recorded when none of the later
\* minors is zero; a later minor that is zero ends the test with UNDECIDED.
C18_SaddleKeptWhileNonZero ==
    [][(TestOf("bordered") /\ loop.cls = CPCLASS_SADDLE) =>
          IF tin.sig[loop.k] # 0
          THEN /\ loop'.cls = CPCLASS_SADDLE
               /\ loop'.done => loop'.rec = CPCLASS_SADDLE
          ELSE /\ loop'.done
               /\ loop'.rec = CPCLASS_UNDECIDED]_vars

C18_Witness ==
    /\ TestOf("bordered") /\ loop.done /\ tin.n = 3
    /\ BorderedTest(SubSeq(tin.sig, 1, 2), 2, tin.m) = CPCLASS_SADDLE
    /\ tin.sig[3] # 0 /\ loop.rec = CPCLASS_SADDLE

\* the lowest order in 2..os with a non-zero derivative, 0 when there is none
LowestOrder ==
    IF \E k \in 2..tin.os : tin.sig[k] # 0
    THEN CHOOSE k \in 2..tin.os :
            tin.sig[k] # 0 /\ \A j \in 2..(k - 1) : tin.sig[j] = 0
    ELSE 0

\* C20: a critical point of a function of one variable is classified by
\* the lowest order k in 2..order_size with a non-zero derivative: SADDLE
\* (shown as an inflection point) for odd k, MIN for even k and a positive
\* derivative, MAX for even k otherwise, and UNDECIDED when all the
\* derivatives vanish; this is also what UnivariateTest computes.
C20_UnivariateClass ==
    (TestOf("univariate") /\ loop.done) =>
        LET k == LowestOrder
        IN /\ loop.rec = UnivariateTest(tin.sig, tin.os)[1]
           /\ loop.rec = (IF k = 0 THEN CPCLASS_UNDECIDED
                          ELSE IF k % 2 = 1 THEN CPCLASS_SADDLE
                          ELSE IF tin.sig[k] > 0 THEN CPCLASS_MIN
                          ELSE CPCLASS_MAX)
           /\ saddle_message(tin.n) = "inflection point"

C20_Witness ==
    /\ TestOf("univariate") /\ loop.done /\ LowestOrder = 3
    /\ loop.rec = CPCLASS_SADDLE

\* ------------------------------------------------- the higher-order test
\* The higher-order test over the candidates of one call of
\* find_local_extrema under one arrangement.  hig holds order_size (os),
\* the lowest degree whose Taylor term is the zero polynomial (zero, os+1
\* when there is none up to os: the terms come from one another by
\* differentiation, so every term after a zero term is zero), the list
\* taylor_terms shared by the candidates of the call (tt, TRUE for a zero
\* term), the number of candidates tested (n), and for the latest candidate
\* the kernel's answers (ans) and the verdict (cls).  ans[k] is "zero" when
\* the term of degree k vanishes at the candidate, "empty" when
\* global_extrema finds nothing on the sphere, and <<pmin, pmax>> otherwise.

Answers == {"zero", "empty"} \cup SphereExtrema

\* the answers the kernel can give for one candidate: a zero term vanishes
\* at every candidate
CandidateAnswers(os, z) ==
    {a \in [2..os -> Answers] : \A k \in 2..os : k >= z => a[k] = "zero"}

\* the loop over the degrees from k on; the result is <<cls, taylor_terms>>
RECURSIVE HigherLoop(_, _, _, _, _)
HigherLoop(k, tt, os, ans, z) ==
    IF k > os THEN <<CPCLASS_UNDECIDED, tt>>
    ELSE
      LET t2 == IF Len(tt) < k - 1 THEN Append(tt, k >= z) ELSE tt
      IN IF t2[Len(t2)] THEN <<CPCLASS_UNDECIDED, t2>>
         ELSE IF ans[k] = "zero" THEN HigherLoop(k + 1, t2, os, ans, z)
         ELSE IF ans[k] = "empty" THEN <<CPCLASS_UNDECIDED, t2>>
         ELSE LET v == TaylorVerdict(k, ans[k][1], ans[k][2])
              IN IF v = "next" THEN HigherLoop(k + 1, t2, os, ans, z)
                 ELSE <<v, t2>>

InitHigher ==
    /\ cmd = "find_local_extrema"
    /\ nv = 0
    /\ pc = "higher"
    /\ result = NoResult
    /\ ExtremaIdle
    /\ GlobalIdle
    /\ EngineIdle
    /\ TestsIdle
    /\ OthersIdle
    /\ \E os \in 2..MaxHigherOrder : \E z \in 2..(os + 1) :
         hig = [os |-> os, zero |-> z, tt |-> <<>>, n |-> 0,
                ans |-> <<>>, cls |-> "none"]

HigherFrame ==
    UNCHANGED <<exvars, gvars, evars, tvars, kvars, dvars, pvars>>

\* one candidate the eigenvalue test left UNDECIDED goes through the loop
ClassifyHigher ==
    /\ hig # <<>> /\ hig.n < MaxHigherCand
    /\ \E a \in CandidateAnswers(hig.os, hig.zero) :
         LET r == HigherLoop(2, hig.tt, hig.os, a, hig.zero)
         IN hig' = [hig EXCEPT !.tt = r[2], !.n = @ + 1, !.ans = a,
                                !.cls = r[1]]
    /\ HigherFrame

\* the next call of find_local_extrema, under another arrangement, starts
\* with an empty list of Taylor terms
HigherNewCall ==
    /\ hig # <<>> /\ hig.n >= 1
    /\ \E z \in 2..(hig.os + 1) :
         hig' = [hig EXCEPT !.zero = z, !.tt = <<>>, !.n = 0, !.ans = <<>>,
                            !.cls = "none"]
    /\ HigherFrame

NextHigher ==
    \/ ClassifyHigher
    \/ HigherNewCall

SpecHigher == InitHigher /\ [][NextHigher]_vars

HigherTested == hig # <<>> /\ hig.n >= 1

\* the verdict the loop gives the latest candidate when it is the first
\* candidate of a call
VerdictAlone == HigherLoop(2, <<>>, hig.os, hig.ans, hig.zero)[1]

\* the first degree whose polynomial at the candidate is not the zero
\* polynomial, 0 when there is none up to order_size
Decides(k) == hig.ans[k] # "zero" /\ hig.ans[k] # <<0, 0>>

FirstDeciding ==
    IF \E k \in 2..hig.os : Decides(k)
    THEN CHOOSE k \in 2..hig.os : Decides(k) /\ \A j \in 2..(k - 1) : ~Decides(j)
    ELSE 0

PolicyVerdict ==
    LET k == FirstDeciding
        pmin == hig.ans[k][1]
        pmax == hig.ans[k][2]
    IN IF k = 0 THEN CPCLASS_UNDECIDED
       ELSE IF k % 2 = 1 \/ (pmin < 0 /\ 0 < pmax) THEN CPCLASS_SADDLE
       ELSE IF pmin > 0 THEN CPCLASS_MIN
       ELSE IF pmax < 0 THEN CPCLASS_MAX
       ELSE IF pmin = 0 THEN CPCLASS_POSSIBLE_MIN
       ELSE CPCLASS_POSSIBLE_MAX

\* global_extrema found the extrema of every polynomial it was asked about
SphereSolved == \A k \in 2..hig.os : hig.ans[k] # "empty"

\* the first candidate of a call gets the verdict of the policy
FirstCandidatePolicy ==
    (HigherTested /\ hig.n = 1 /\ SphereSolved) => hig.cls = PolicyVerdict

\* C13: the verdict of a candidate does not depend on the candidates tested
\* before it in the same call: it is the verdict the same candidate gets
\* when it is the first one, with an empty list of Taylor terms.
C13_VerdictOfCandidateOnly ==
    HigherTested => hig.cls = VerdictAlone

\* C19: the verdict of the higher-order test is that of the first degree k
\* in 2..order_size whose polynomial at the candidate is not zero: SADDLE
\* for odd k or pmin < 0 < pmax, otherwise MIN for pmin > 0, MAX for
\* pmax < 0, POSSIBLE_MIN for pmin = 0, POSSIBLE_MAX for pmax = 0; and
\* UNDECIDED when no degree up to order_size decides.
C19_HigherPolicy ==
    (HigherTested /\ SphereSolved) => hig.cls = PolicyVerdict

\* ------------------------------------------------------------ solve_kkt
\* kkt holds the sizes n, m, l (variables, inequalities, equalities), the
\* vector is_mu_zero, the reduced systems solved so far (systems), the
\* solutions solve2 gave for them as it gave them (produced), the list cv
\* and the position in the function.  A solution is the vector of the
\* values of the unknowns: the point, then one value per multiplier left.
\* The multipliers are numbered 0..m-1 (mu) and m..m+l-1 (lambda).

RECURSIVE next_binary_perm_no_carry(_, _)
next_binary_perm_no_carry(perm, to_end) ==
    IF to_end = Len(perm) THEN <<perm, FALSE>>
    ELSE LET end == Len(perm) - 1 - to_end
             p2 == [x \in 1..Len(perm) |->
                      IF x = end + 1 THEN ~perm[x] ELSE perm[x]]
         IN <<p2, p2[end + 1]>>

\* <<perm, returned value>>
RECURSIVE next_binary_perm(_, _)
next_binary_perm(perm, to_end) ==
    IF to_end = Len(perm) THEN <<perm, FALSE>>
    ELSE LET end == Len(perm) - 1 - to_end
             p2 == [x \in 1..Len(perm) |->
                      IF x = end + 1 THEN ~perm[x] ELSE perm[x]]
         IN IF p2[end + 1] THEN <<p2, TRUE>>
            ELSE next_binary_perm(p2, to_end + 1)

\* the loop over i = m-1 .. 0 that builds the reduced system: the
\* multipliers substituted by zero, the inequalities added as equations,
\* and the multipliers left in v
RECURSIVE ReducedLoop(_, _, _)
ReducedLoop(i, sys, is_mu_zero) ==
    IF i < 0 THEN sys
    ELSE IF is_mu_zero[i + 1]
         THEN ReducedLoop(i - 1,
                          [sys EXCEPT !.zeroed = Append(@, i),
                                      !.v = Erase(@, i)],
                          is_mu_zero)
         ELSE ReducedLoop(i - 1, [sys EXCEPT !.tight = Append(@, i)],
                          is_mu_zero)

ReducedSystem(mm, l, is_mu_zero) ==
    ReducedLoop(mm - 1,
                [zeroed |-> <<>>, tight |-> <<>>,
                 v |-> [j \in 1..(mm + l) |-> j - 1]],
                is_mu_zero)

\* is_strictly_positive(g[j]) at the point pt, for the inequalities
\* g[j] = x[n-1-(j mod n)] - 1/2 <= 0
g_positive(pt, n, j) == pt[n - (j % n)] = 1

resize_keep(vec, n) == vec

\* cv[i]._VECTptr->resize(n)
resize(vec, n) == SubSeq(vec, 1, n)

\* the loop over i = size-1 .. 0 that cuts each solution to the point and
\* erases the points at which some inequality is strictly positive
RECURSIVE FilterLoop(_, _, _, _)
FilterLoop(c, i, n, mm) ==
    IF i < 0 THEN c
    ELSE LET pt == resize(c[i + 1], n)
         IN IF \E j \in 0..(mm - 1) : g_positive(pt, n, j)
            THEN FilterLoop(Erase(c, i), i - 1, n, mm)
            ELSE FilterLoop([x \in 1..Len(c) |->
                                IF x = i + 1 THEN pt ELSE c[x]],
                            i - 1, n, mm)

\* what solve2 may return for a reduced system with k multipliers left
KktAnswers(n, k, room) ==
    LET sols == {pt \o [j \in 1..k |-> t] : pt \in CritPool(n), t \in 1..2}
        most == IF room < MaxKktSol THEN room ELSE MaxKktSol
    IN {sq \in SeqsUpTo(sols, most) :
           \A i, j \in 1..Len(sq) : sq[i] = sq[j] => i = j}

InitKkt ==
    /\ cmd = "solve_kkt"
    /\ nv = 0
    /\ pc = "kkt"
    /\ result = NoResult
    /\ ExtremaIdle
    /\ GlobalIdle
    /\ EngineIdle
    /\ TestsIdle
    /\ HigherIdle
    /\ TermsIdle
    /\ TransportIdle
    /\ \E n \in 2..MaxVars : \E mm \in 0..MaxIneq : \E l \in 0..1 :
         kkt = [n |-> n, m |-> mm, l |-> l,
                is_mu_zero |-> [i \in 1..mm |-> FALSE],
                systems |-> <<>>, produced |-> <<>>, cv |-> <<>>,
                at |-> "loop"]

KktFrame ==
    UNCHANGED <<exvars, gvars, evars, tvars, hvars, dvars, pvars>>

\* one iteration of the do-while loop, its condition included
KktSolve ==
    /\ kkt # <<>> /\ kkt.at = "loop"
    /\ LET sys == ReducedSystem(kkt.m, kkt.l, kkt.is_mu_zero)
           nxt == next_binary_perm(kkt.is_mu_zero, 0)
       IN \E sol \in KktAnswers(kkt.n, Len(sys.v),
                                MaxKktCand - Len(kkt.produced)) :
            kkt' = [kkt EXCEPT !.systems = Append(@, sys),
                               !.produced = @ \o sol,
                               !.cv = @ \o sol,
                               !.is_mu_zero = nxt[1],
                               !.at = IF nxt[2] THEN "loop" ELSE "filter"]
    /\ KktFrame

\* the filter and the return statement
KktReturn ==
    /\ kkt # <<>> /\ kkt.at = "filter"
    /\ kkt' = [kkt EXCEPT
                 !.cv = FilterLoop(kkt.cv, Len(kkt.cv) - 1, kkt.n, kkt.m),
                 !.at = "done"]
    /\ KktFrame

NextKkt ==
    \/ KktSolve
    \/ KktReturn

SpecKkt == InitKkt /\ [][NextKkt]_vars

KktLeftLoop == kkt # <<>> /\ kkt.at # "loop"

KktDone == kkt # <<>> /\ kkt.at = "done"

\* C21: the loop runs exactly 2^m times and meets every set of multipliers
\* forced to zero once; in each run every inequality multiplier is either
\* substituted by zero and taken out of the unknowns, or its inequality is
\* added as an equation, and the unknowns left are the other multipliers.
C21_AllPatternsOnce ==
    kkt # <<>> =>
        LET I == 0..(kkt.m - 1)
            Z(k) == Range(kkt.systems[k].zeroed)
            T(k) == Range(kkt.systems[k].tight)
        IN /\ \A k \in 1..Len(kkt.systems) :
                /\ Z(k) \cap T(k) = {}
                /\ Z(k) \cup T(k) = I
                /\ Len(kkt.systems[k].zeroed) = Cardinality(Z(k))
                /\ Len(kkt.systems[k].tight) = Cardinality(T(k))
                /\ Range(kkt.systems[k].v) = (0..(kkt.m + kkt.l - 1)) \ Z(k)
                /\ Len(kkt.systems[k].v) = kkt.m + kkt.l - Cardinality(Z(k))
           /\ \A j, k \in 1..Len(kkt.systems) : Z(j) = Z(k) => j = k
           /\ Len(kkt.systems) >= 1 => Z(1) = {}
           /\ KktLeftLoop =>
                /\ Len(kkt.systems) = Pow2(kkt.m)
                /\ {Z(k) : k \in 1..Len(kkt.systems)} = SUBSET I

C21_Witness ==
    /\ KktLeftLoop /\ kkt.m = 2 /\ Len(kkt.systems) = 4
    /\ kkt.systems[4].zeroed = <<1, 0>>

\* C22: every point returned has exactly n coordinates and no inequality
\* is strictly positive at it, and every solution the solver produced at
\* which no inequality is strictly positive is returned.
C22_FeasibleReturned ==
    KktDone =>
        LET feasible(pt) ==
                \A j \in 0..(kkt.m - 1) : ~g_positive(pt, kkt.n, j)
        IN /\ \A i \in 1..Len(kkt.cv) :
                /\ Len(kkt.cv[i]) = kkt.n
                /\ kkt.cv[i] \in CritPool(kkt.n)
                /\ feasible(kkt.cv[i])
           /\ \A i \in 1..Len(kkt.produced) :
                feasible(SubSeq(kkt.produced[i], 1, kkt.n))
                  => SubSeq(kkt.produced[i], 1, kkt.n) \in Range(kkt.cv)

C22_Witness ==
    /\ KktDone /\ Len(kkt.produced) = 2 /\ Len(kkt.cv) = 1
    /\ Len(kkt.produced[1]) > kkt.n
    /\ kkt.produced[1][kkt.n] = 1

\* C23: the list solve_kkt returns holds no point twice.
C23_NoPointTwice ==
    KktDone => \A i, j \in 1..Len(kkt.cv) : kkt.cv[i] = kkt.cv[j] => i = j

\* ------------------------------------------------------------ ipartition
\* the sequences of n non-negative integers with the sum mm
Compositions(mm, n) == {sq \in [1..n -> 0..mm] : SumSeq(sq) = mm}

\* the list ipartition leaves holds every such sequence once
ListsCompositions(mm, n) ==
    LET c == ipartition(mm, n)
    IN /\ Range(c) = Compositions(mm, n)
       /\ \A i, j \in 1..Len(c) : c[i] = c[j] => i = j

\* from order 1 on ipartition lists the multi-indices of the order
PartitionsOfPositiveOrder ==
    cmd = "ipdiff" =>
        \A k \in 1..MaxDerivOrder : ListsCompositions(k, ipd.nvars)

\* C24: for every order m >= 0 and every n >= 1, ipartition on an empty
\* list leaves exactly the sequences of n non-negative integers with the
\* sum m, each once.
C24_AllPartitionsOnce ==
    cmd = "ipdiff" =>
        \A k \in 0..MaxDerivOrder : ListsCompositions(k, ipd.nvars)

\* ------------------------------------------------- vars_arrangements
\* extrema has just called vars_arrangements
ArrangementsComputed ==
    /\ cmd = "extrema" /\ pc = "arr" /\ ai = 1 /\ ~solved
    /\ jacobian_checked(order_size, m)

EmptyTerms == [x \in {} |-> 0]

\* m[key] += val
MapAdd(mp, key, val) ==
    IF key \in DOMAIN mp THEN [mp EXCEPT ![key] = @ + val]
    ELSE mp @@ (key :> val)

\* m.erase(m.find(key))
MapErase(mp, key) == [x \in (DOMAIN mp) \ {key} |-> mp[x]]

\* ++v[k]
Inc(v, k) == [x \in 1..Len(v) |-> IF x = k + 1 THEN v[x] + 1 ELSE v[x]]

\* --v[k]
Dec(v, k) == [x \in 1..Len(v) |-> IF x = k + 1 THEN v[x] - 1 ELSE v[x]]

chain_factor_none(second, u) == second

\* ++t.second[u]: the factor the chain rule brings in
chain_factor(second, u) == MapAdd(second, u, 1)

\* the loop over the factors of a term (product rule); hkeys is what is
\* left of the keys of h_orig, in their order; h is the working copy
RECURSIVE FactorLoop(_, _, _, _, _, _, _)
FactorLoop(tv, raw, h_orig, hkeys, h, c, k) ==
    IF hkeys = <<>> THEN tv
    ELSE LET v == Head(hkeys)
             p == h_orig[v]
         IN IF p = 0 THEN FactorLoop(tv, raw, h_orig, Tail(hkeys), h, c, k)
            ELSE LET h1 == IF p = 1 THEN MapErase(h, v)
                           ELSE [h EXCEPT ![v] = @ - 1]
                     v2 == Inc(v, k)
                     h2 == MapAdd(h1, v2, 1)
                     tv2 == MapAdd(tv, [raw |-> raw, h |-> h2], c * p)
                     h3 == [h2 EXCEPT ![v2] = @ - 1]
                     h4 == MapAdd(h3, v, 1)
                 IN FactorLoop(tv2, raw, h_orig, Tail(hkeys), h4, c, k)

\* the loop over the constraints (chain rule); second is t.second
RECURSIVE ConstrLoop(_, _, _, _, _, _, _, _)
ConstrLoop(tv, raw, second, c, k, i, nvars, nconstr) ==
    IF i >= nconstr THEN tv
    ELSE LET u == [j \in 1..(nvars + 1) |->
                      IF j = k + 1 THEN 1 ELSE IF j = nvars + 1 THEN i ELSE 0]
             s2 == chain_factor(second, u)
             tv2 == MapAdd(tv, [raw |-> Inc(raw, nvars + i), h |-> s2], c)
             s3 == IF u \in DOMAIN s2 THEN [s2 EXCEPT ![u] = @ - 1] ELSE s2
         IN ConstrLoop(tv2, raw, s3, c, k, i + 1, nvars, nconstr)

\* the body of the loop over the terms, for the term t with coefficient c
DeriveTerm(tv, t, c, k, nvars, nconstr) ==
    LET tv1 == MapAdd(tv, [raw |-> Inc(t.raw, k), h |-> t.h], c)
        tv2 == FactorLoop(tv1, t.raw, t.h, SortedKeys(DOMAIN t.h), t.h, c, k)
    IN ConstrLoop(tv2, t.raw, t.h, c, k, 0, nvars, nconstr)

\* tv[key] summed over parts, each part being a term and what the body
\* of the loop adds to tv for it
RECURSIVE SumParts(_, _)
SumParts(parts, key) ==
    IF parts = {} THEN 0
    ELSE LET p == CHOOSE x \in parts : TRUE
         IN p[2][key] + SumParts(parts \ {p}, key)

\* the loop over the terms: every entry of tv is the sum of what the body
\* of the loop adds to it for each term, in whatever order the terms come
TermsLoop(terms, k, nvars, nconstr) ==
    LET parts == {<<t, DeriveTerm(EmptyTerms, t, terms[t], k, nvars,
                                  nconstr)>> : t \in DOMAIN terms}
        keys == UNION {DOMAIN p[2] : p \in parts}
    IN [key \in keys |->
           SumParts({p \in parts : key \in DOMAIN p[2]}, key)]

\* while (!sig.empty() && sig.back()==0) sig.pop_back();
RECURSIVE StripZeros(_)
StripZeros(sig) ==
    IF sig # <<>> /\ sig[Len(sig)] = 0
    THEN StripZeros(SubSeq(sig, 1, Len(sig) - 1))
    ELSE sig

RECURSIVE derive_diffterms(_, _, _, _)
derive_diffterms(terms, sig, nvars, nconstr) ==
    LET sg == StripZeros(sig)
    IN IF sg = <<>> THEN terms
       ELSE LET k == Len(sg) - 1
                tv == TermsLoop(terms, k, nvars, nconstr)
            IN IF DOMAIN tv = {} THEN tv
               ELSE derive_diffterms(tv, Dec(sg, Len(sg) - 1), nvars,
                                     nconstr)

\* init_terms of raise_order: the function itself with the coefficient 1
InitTerms(nvars, nconstr) ==
    LET init_term == [raw |-> Zeros(nvars + nconstr), h |-> EmptyTerms]
    IN [x \in {init_term} |-> 1]

\* sum_ivector(v,true): the order of an implicit derivative
HOrder(v) == SumSeq(SubSeq(v, 1, Len(v) - 1))

\* the cached key is component-wise <= sig
qualifies(sig, key) == \A i \in 1..Len(sig) : sig[i] - key[i] >= 0

pick_match_init(found, init) == init

\* match=it->second
pick_match(found, init) == found

\* the loop of find_nearest_terms over the keys of cterms, in their order;
\* the result is <<match, excess>>
RECURSIVE NearestLoop(_, _, _, _, _, _)
NearestLoop(sig, keys, cterms, match, excess, init) ==
    IF keys = <<>> THEN <<match, excess>>
    ELSE LET key == Head(keys)
             ex == [i \in 1..Len(sig) |-> sig[i] - key[i]]
         IN IF qualifies(sig, key) /\ SumSeq(ex) < SumSeq(excess)
            THEN NearestLoop(sig, Tail(keys), cterms,
                             pick_match(cterms[key], init), ex, init)
            ELSE NearestLoop(sig, Tail(keys), cterms, match, excess, init)

\* diffterms terms=init_terms; find_nearest_terms(*it,terms,excess);
find_nearest_terms(sig, cterms, init) ==
    NearestLoop(sig, SortedKeys(DOMAIN cterms), cterms, init, sig, init)

\* the index map of compute_h: the position of hsig in hsigv, or the size
\* of hsigv when it is not there
column_of_new(hsigv, hsig) == Len(hsigv)

column_of(hsigv, hsig) ==
    IF \E i \in 1..Len(hsigv) : hsigv[i] = hsig
    THEN (CHOOSE i \in 1..Len(hsigv) : hsigv[i] = hsig) - 1
    ELSE Len(hsigv)

\* the factors of a term with a non-zero exponent, below the order at
\* hand and not below it
LowFactors(t, order) ==
    {v \in DOMAIN t.h : t.h[v] # 0 /\ HOrder(v) < order}

TopFactors(t, order) ==
    {v \in DOMAIN t.h : t.h[v] # 0 /\ HOrder(v) >= order}

\* the loop over the factors of a term in compute_h: the factors with a
\* non-zero exponent of an order below the order at hand are read from
\* pdh, the last other one is the unknown hsig
TermUnknown(t, order) ==
    LET keys == SortedKeys(TopFactors(t, order))
    IN IF keys = <<>> THEN <<>> ELSE keys[Len(keys)]

\* eq[k]+=t for the terms of rest, which have an unknown: the column k and
\* the growth of hsigv.  The columns get their numbers in the order of the
\* terms; the number of columns does not depend on that order.
RECURSIVE ColumnsLoop(_, _, _)
ColumnsLoop(sys, rest, order) ==
    IF rest = {} THEN sys
    ELSE LET t == CHOOSE x \in rest : TRUE
             hsig == TermUnknown(t, order)
             col == column_of(sys.hsigv, hsig)
             s2 == [sys EXCEPT
                      !.maxcol = IF col > @ THEN col ELSE @,
                      !.hsigv = IF col = Len(@) THEN Append(@, hsig)
                                ELSE @]
         IN IF Len(s2.hsigv) < 0 THEN s2
            ELSE ColumnsLoop(s2, rest \ {t}, order)

\* the loop over the terms of one equation; sys holds hsigv, the largest
\* column written, and what the assertions of the loop test
EquationLoop(sys, terms, order, pdh) ==
    LET s1 == [sys EXCEPT
                 !.lower_known =
                     @ /\ \A t \in DOMAIN terms :
                             LowFactors(t, order) \subseteq pdh,
                 !.unit_exponent =
                     @ /\ \A t \in DOMAIN terms :
                             \A v \in TopFactors(t, order) : t.h[v] = 1,
                 !.one_unknown =
                     @ /\ \A t \in DOMAIN terms :
                             Cardinality(TopFactors(t, order)) <= 1]
    IN ColumnsLoop(s1, {t \in DOMAIN terms : TermUnknown(t, order) # <<>>},
                   order)

\* the loops over the constraints i and the expansions grv[j]
RECURSIVE SystemLoop(_, _, _, _, _, _, _)
SystemLoop(sys, grv, i, j, nconstr, order, pdh) ==
    IF i >= nconstr THEN sys
    ELSE IF j >= Len(grv) THEN SystemLoop(sys, grv, i + 1, 0, nconstr,
                                          order, pdh)
    ELSE LET s1 == EquationLoop(sys, grv[j + 1], order, pdh)
             s2 == [s1 EXCEPT !.rows = @ + 1]
         IN IF s2.rows < 0 THEN s2
            ELSE SystemLoop(s2, grv, i, j + 1, nconstr, order, pdh)

\* compute_h(grv,order) up to the call of _inv: the system it builds
compute_h(grv, order, nconstr, pdh) ==
    SystemLoop([order |-> order, hsigv |-> <<>>, maxcol |-> -1, rows |-> 0,
                rowlen |-> nconstr * Len(grv), lower_known |-> TRUE,
                unit_exponent |-> TRUE, one_unknown |-> TRUE],
               grv, 0, 0, nconstr, order, pdh)

NoSystem == [order |-> 0]

NewTerms(nvars, nconstr) ==
    [nvars |-> nvars, nconstr |-> nconstr, ord |-> 0, target |-> 0,
     k |-> 0, c |-> <<>>, ci |-> 0, grv |-> <<>>,
     cterms |-> [x \in {} |-> EmptyTerms], pdh |-> {},
     sys |-> NoSystem,
     scratch |-> [sig |-> Zeros(nvars), terms |-> InitTerms(nvars, nconstr)]]

InitTermsSpec ==
    /\ cmd = "ipdiff"
    /\ nv = 0
    /\ pc = "terms"
    /\ result = NoResult
    /\ ExtremaIdle
    /\ GlobalIdle
    /\ EngineIdle
    /\ TestsIdle
    /\ HigherIdle
    /\ KktIdle
    /\ TransportIdle
    /\ \E nvars \in 1..MaxTermVars : \E nconstr \in 1..MaxTermConstr :
         dt = NewTerms(nvars, nconstr)

TermsFrame ==
    UNCHANGED <<exvars, gvars, evars, tvars, hvars, kvars, pvars>>

\* raise_order(order) up to the first multi-index of the order ord+1
TermsRaise ==
    /\ dt # <<>> /\ dt.target = 0
    /\ \E order \in (dt.ord + 1)..MaxTermOrder :
         dt' = [dt EXCEPT !.target = order, !.k = dt.ord + 1,
                          !.c = ipartition(dt.ord + 1, dt.nvars),
                          !.ci = 1, !.grv = <<>>]
    /\ TermsFrame

\* one multi-index of the order k of raise_order; after the last one
\* compute_h, the next order, and after the last order ord=order
TermsStep ==
    /\ dt # <<>> /\ dt.target # 0
    /\ LET sig == dt.c[dt.ci]
           init == InitTerms(dt.nvars, dt.nconstr)
           near == find_nearest_terms(sig, dt.cterms, init)
           derived == SumSeq(near[2]) > 0
           terms == IF derived
                    THEN derive_diffterms(near[1], near[2], dt.nvars,
                                          dt.nconstr)
                    ELSE near[1]
           ct == IF derived THEN MapPut(dt.cterms, sig, terms)
                 ELSE dt.cterms
           grv == Append(dt.grv, terms)
       IN IF dt.ci < Len(dt.c)
          THEN dt' = [dt EXCEPT !.cterms = ct, !.grv = grv, !.ci = @ + 1]
          ELSE LET sys == compute_h(grv, dt.k, dt.nconstr, dt.pdh)
                   d2 == [dt EXCEPT !.cterms = ct, !.grv = grv,
                                    !.sys = sys,
                                    !.pdh = @ \cup Range(sys.hsigv)]
               IN IF dt.k < dt.target
                  THEN dt' = [d2 EXCEPT
                                !.k = @ + 1,
                                !.c = ipartition(dt.k + 1, dt.nvars),
                                !.ci = 1, !.grv = <<>>]
                  ELSE dt' = [d2 EXCEPT !.ord = dt.target, !.target = 0,
                                        !.k = 0, !.c = <<>>, !.ci = 0,
                                        !.grv = <<>>]
    /\ TermsFrame

\* derive_diffterms on an expansion by one more coordinate, starting from
\* the initial term; not in the middle of a call of raise_order
TermsDerive ==
    /\ dt # <<>> /\ dt.target = 0
    /\ SumSeq(dt.scratch.sig) < MaxTermOrder
    /\ \E j \in 0..(dt.nvars - 1) :
         dt' = [dt EXCEPT
                  !.scratch =
                     [sig |-> Inc(dt.scratch.sig, j),
                      terms |-> derive_diffterms(
                                    dt.scratch.terms,
                                    Inc(Zeros(dt.nvars), j),
                                    dt.nvars, dt.nconstr)]]
    /\ TermsFrame

NextTerms ==
    \/ TermsRaise
    \/ TermsStep
    \/ TermsDerive

SpecTerms == InitTermsSpec /\ [][NextTerms]_vars

\* the monomial a term denotes: its raw partial derivative and its
\* h-factors with a non-zero exponent
Monomial(t) ==
    [raw |-> t.raw,
     h |-> [v \in {x \in DOMAIN t.h : t.h[x] # 0} |-> t.h[v]]]

Merged(terms) ==
    \A a, b \in DOMAIN terms : Monomial(a) = Monomial(b) => a = b

NoZeroExponent(terms) ==
    \A t \in DOMAIN terms : \A v \in DOMAIN t.h : t.h[v] # 0

\* the expansions derive_diffterms has produced: the cached ones and the
\* one derived coordinate by coordinate
Produced ==
    {dt.cterms[sig] : sig \in DOMAIN dt.cterms}
        \cup (IF SumSeq(dt.scratch.sig) > 0 THEN {dt.scratch.terms} ELSE {})

\* C26: in every expansion produced by derive_diffterms no two entries
\* denote the same monomial, and no stored exponent of an h-factor is zero.
C26_MergedNoZeroExponent ==
    dt # <<>> => \A terms \in Produced :
                    Merged(terms) /\ NoZeroExponent(terms)

\* the first half of C26 alone: no two entries denote the same monomial
MergedExpansions ==
    dt # <<>> => \A terms \in Produced : Merged(terms)

RECURSIVE FactorOrders(_, _)
FactorOrders(h, keys) ==
    IF keys = {} THEN 0
    ELSE LET v == CHOOSE x \in keys : TRUE
         IN h[v] * HOrder(v) + FactorOrders(h, keys \ {v})

\* the order of a term: its raw partial derivative on the axes of the
\* independent variables plus exponent times order of its h-factors
TermOrder(t, nvars) ==
    SumSeq(SubSeq(t.raw, 1, nvars)) + FactorOrders(t.h, DOMAIN t.h)

\* C27: every term of the expansion cached under sig has the order |sig|,
\* after any sequence of raise_order calls.
C27_TermsOfOrderSig ==
    dt # <<>> =>
        \A sig \in DOMAIN dt.cterms : \A t \in DOMAIN dt.cterms[sig] :
            TermOrder(t, dt.nvars) = SumSeq(sig)

\* an expansion of the highest order is cached, with a term that holds the
\* square of a first-order h-factor and a term with one second-order factor
C27_Witness ==
    /\ dt # <<>>
    /\ \E sig \in DOMAIN dt.cterms :
         /\ SumSeq(sig) = MaxTermOrder
         /\ \E t \in DOMAIN dt.cterms[sig] :
              \E v \in DOMAIN t.h : t.h[v] = 2 /\ HOrder(v) = 1
         /\ \E t \in DOMAIN dt.cterms[sig] :
              \E v \in DOMAIN t.h : t.h[v] = 1 /\ HOrder(v) = 2

RECURSIVE SumCoefficients(_, _)
SumCoefficients(terms, keys) ==
    IF keys = {} THEN 0
    ELSE LET t == CHOOSE x \in keys : TRUE
         IN terms[t] + SumCoefficients(terms, keys \ {t})

\* the weighted sum of monomials an expansion denotes: each monomial with
\* the sum of the coefficients of the entries that denote it
Denote(terms) ==
    [mo \in {Monomial(t) : t \in DOMAIN terms} |->
        SumCoefficients(terms, {t \in DOMAIN terms : Monomial(t) = mo})]

Difference(sig, key) == [i \in 1..Len(sig) |-> sig[i] - key[i]]

\* C28: the expansion raise_order caches under sig denotes the same
\* weighted sum of monomials as the initial term derived |sig| times, one
\* coordinate at a time in any order, and as any cached expansion of a
\* key component-wise <= sig derived by the difference.
C28_NearestPrefixSameAsScratch ==
    dt # <<>> =>
        /\ dt.scratch.sig \in DOMAIN dt.cterms =>
              Denote(dt.cterms[dt.scratch.sig]) = Denote(dt.scratch.terms)
        /\ dt.scratch.sig = Zeros(dt.nvars) =>
              \A sig \in DOMAIN dt.cterms : \A key \in DOMAIN dt.cterms :
                 (key # sig /\ qualifies(sig, key)) =>
                    Denote(derive_diffterms(dt.cterms[key],
                                            Difference(sig, key),
                                            dt.nvars, dt.nconstr))
                        = Denote(dt.cterms[sig])

\* an expansion of the highest order with two coordinates raised is cached,
\* derived from a cached expansion of a lower order, and the initial term
\* has been derived by the same multi-index coordinate by coordinate
C28_Witness ==
    /\ dt # <<>>
    /\ dt.nvars >= 2
    /\ dt.scratch.sig \in DOMAIN dt.cterms
    /\ SumSeq(dt.scratch.sig) = MaxTermOrder
    /\ \E i, j \in 1..dt.nvars :
          i # j /\ dt.scratch.sig[i] > 0 /\ dt.scratch.sig[j] > 0
    /\ \E key \in DOMAIN dt.cterms :
          key # dt.scratch.sig /\ qualifies(dt.scratch.sig, key)

\* C29: the system compute_h has built for the order k is square: as many
\* distinct unknown h multi-indices of the order k as equations, nconstr
\* times the number of partitions of k, every column index within the row
\* length; every unknown factor has the exponent 1 and every factor of a
\* lower order is in the cache pdh.
C29_SquareSystem ==
    (dt # <<>> /\ dt.sys.order > 0) =>
        LET sys == dt.sys
            parts == Len(ipartition(sys.order, dt.nvars))
        IN /\ sys.rows = dt.nconstr * parts
           /\ sys.rowlen = sys.rows
           /\ Len(sys.hsigv) = sys.rows
           /\ \A i, j \in 1..Len(sys.hsigv) :
                 sys.hsigv[i] = sys.hsigv[j] => i = j
           /\ \A i \in 1..Len(sys.hsigv) : HOrder(sys.hsigv[i]) = sys.order
           /\ sys.maxcol < sys.rowlen
           /\ sys.unit_exponent
           /\ sys.one_unknown
           /\ sys.lower_known

\* the system of the highest order, with two constraints and two
\* independent variables, built when the cache holds the first-order h
C29_Witness ==
    /\ dt # <<>>
    /\ dt.nvars = 2 /\ dt.nconstr = 2
    /\ dt.sys.order = MaxTermOrder
    /\ Len(dt.sys.hsigv) = 2 * Len(ipartition(MaxTermOrder, 2))
    /\ dt.sys.maxcol = Len(dt.sys.hsigv) - 1
    /\ \E v \in dt.pdh : HOrder(v) = 1

\* ---------------------------------------------------- north_west_corner
\* tp holds supply and demand, the matrix feas, the position i, j of the
\* loop, the number of allocations made and the position in the function.
\* A cell of feas is a number of units or the degeneracy marker eps.

Units(k) == [units |-> k, marker |-> FALSE]

\* eps=exact(epsilon(contextptr)/2,contextptr)
eps == [units |-> 0, marker |-> TRUE]

\* _epsilon2zero of a cell: the marker eps is below epsilon and becomes 0
epsilon2zero(cell) == cell.units

\* for (int k=0;k<i;++k) v+=_epsilon2zero(feas[k][j],ctx);
RECURSIVE ColumnAbove(_, _, _)
ColumnAbove(feas, i, j) ==
    IF i = 0 THEN 0
    ELSE ColumnAbove(feas, i - 1, j) + epsilon2zero(feas[i][j + 1])

\* for (int k=0;k<j;++k) u+=_epsilon2zero(feas[i][k],ctx);
RECURSIVE RowLeft(_, _, _)
RowLeft(feas, i, j) ==
    IF j = 0 THEN 0
    ELSE RowLeft(feas, i, j - 1) + epsilon2zero(feas[i + 1][j])

Least(a, b) == IF a <= b THEN a ELSE b

\* feas[i]._VECTptr->at(j)=cell
SetCell(feas, i, j, cell) ==
    [r \in 1..Len(feas) |->
        [c \in 1..Len(feas[r]) |->
            IF r = i + 1 /\ c = j + 1 THEN cell ELSE feas[r][c]]]

mark_degenerate_none(feas, i, j) == feas

\* feas[i-1]._VECTptr->at(j)=eps, with i and j already advanced
mark_degenerate(feas, i, j) == SetCell(feas, i - 1, j, eps)

NewProblem(supply, demand) ==
    [supply |-> supply, demand |-> demand,
     feas |-> [r \in 1..Len(supply) |-> [c \in 1..Len(demand) |-> Units(0)]],
     i |-> 0, j |-> 0, steps |-> 0, at |-> "loop"]

\* a balanced problem with positive supplies and demands; feas is cleared
\* and filled with zeros
InitTransport ==
    /\ cmd = "tpsolve"
    /\ nv = 0
    /\ pc = "nwc"
    /\ result = NoResult
    /\ ExtremaIdle
    /\ GlobalIdle
    /\ EngineIdle
    /\ TestsIdle
    /\ HigherIdle
    /\ KktIdle
    /\ TermsIdle
    /\ \E mm \in 1..MaxSources : \E n \in 1..MaxDestinations :
         \E supply \in [1..mm -> 1..MaxUnits] :
            \E demand \in [1..n -> 1..MaxUnits] :
               /\ SumSeq(supply) = SumSeq(demand)
               /\ tp = NewProblem(supply, demand)

TransportFrame ==
    UNCHANGED <<exvars, gvars, evars, tvars, hvars, kvars, dvars>>

\* one pass of the loop while (i<m && j<n)
Allocate ==
    /\ tp # <<>> /\ tp.at = "loop"
    /\ tp.i < Len(tp.supply) /\ tp.j < Len(tp.demand)
    /\ LET s == tp.supply[tp.i + 1]
           d == tp.demand[tp.j + 1]
           v == ColumnAbove(tp.feas, tp.i, tp.j)
           u == RowLeft(tp.feas, tp.i, tp.j)
           a == Least(s - u, d - v)
           feas1 == SetCell(tp.feas, tp.i, tp.j, Units(a))
           k == tp.i + tp.j
           i2 == IF u + a = s THEN tp.i + 1 ELSE tp.i
           j2 == IF v + a = d THEN tp.j + 1 ELSE tp.j
           feas2 == IF i2 < Len(tp.supply) /\ j2 < Len(tp.demand)
                       /\ i2 + j2 - k = 2
                    THEN mark_degenerate(feas1, i2, j2)
                    ELSE feas1
       IN tp' = [tp EXCEPT !.feas = feas2, !.i = i2, !.j = j2,
                           !.steps = @ + 1]
    /\ TransportFrame

\* the loop is left and the function returns
Filled ==
    /\ tp # <<>> /\ tp.at = "loop"
    /\ ~(tp.i < Len(tp.supply) /\ tp.j < Len(tp.demand))
    /\ tp' = [tp EXCEPT !.at = "done"]
    /\ TransportFrame

NextTransport ==
    \/ Allocate
    \/ Filled

SpecTransport == InitTransport /\ [][NextTransport]_vars

NonZero(cell) == cell.marker \/ cell.units # 0

RowSum(feas, r) == RowLeft(feas, r - 1, Len(feas[r]))

ColumnSum(feas, c) == ColumnAbove(feas, Len(feas), c - 1)

====
